---- MODULE Spec2Model ----
(***************************************************************************)
(* Navigation Simulation Engine of boot_save_robot: the grid world         *)
(* (simulador_labirinto.py), the A* engine (astar_labirinto.py), the       *)
(* sensor-only explorer (explorador_simples.py) and the mission            *)
(* orchestrator (robo_resgate.py).                                         *)
(*                                                                         *)
(* Positions are <<row, column>>, 0-indexed as in the source; a grid is a  *)
(* sequence of rows, each a sequence of one-character strings, so the cell *)
(* (r, c) of grid g is g[r + 1][c + 1].                                    *)
(***************************************************************************)
EXTENDS Integers, Sequences, FiniteSets, TLC

\* ------------------------------------------------------------------------
\* Bounds of the model
\* ------------------------------------------------------------------------
NumRows == 3
NumCols == 3
\* most open-floor (' ') cells of a generated map, the other cells being walls:
\* for the maps of the explorer and the mission, and for the maps of the grid
\* world driven by arbitrary commands
MaxOpen == 3
MaxOpenMundo == 1
\* most wall cells of a grid handed to the search on its own
MaxWalls == 2

VARIABLES
    ambiente,         \* where the constructor of AmbienteNavegacao is: "inativo",
                      \* "chamado", "construido" or the error it raised
    labirinto,        \* AmbienteNavegacao.labirinto
    posicao_agente,   \* AmbienteNavegacao.posicao_agente
    direcao_agente,   \* AmbienteNavegacao.direcao_agente (0=N, 1=E, 2=S, 3=W)
    objeto_coletado,  \* AmbienteNavegacao.objeto_coletado
    comando,          \* the last command given to executar_comando_navegacao
    erro,             \* how that command ended: "nenhum" or the error raised
    \* algoritmo_busca_astar
    mapa,             \* its argument mapa
    posicao_inicial,  \* its argument posicao_inicial
    posicao_objetivo, \* its argument posicao_objetivo
    fila_prioridade,  \* the positions of the nodes in the heap
    nos_abertos,      \* the keys of the dict nos_abertos
    nos_visitados,    \* the set nos_visitados
    nos,              \* the NoNavegacao objects created so far, by position
    astar,            \* where the call is: "inativo", "chamado", "buscando" or how it ended
    caminho,          \* the list it returns
    \* ExploradorInteligente
    mapa_conhecido,     \* the dict mapa_conhecido: position -> 'X', '@', '.', 'E'
    posicoes_visitadas, \* the set posicoes_visitadas
    pilha_navegacao,    \* the list pilha_navegacao, top last
    posicao_objeto,     \* posicao_objeto, Nenhum for None
    max_iteracoes,      \* max_iteracoes
    iteracao,           \* the local iteracao of explorar_ate_encontrar_objeto
    explorador,         \* where the call is: "inativo", "chamado", "explorando" or how it ended
    emitidos,           \* the commands the explorer and the agent have given to
                        \* executar_comando_navegacao, in order
    \* AgenteNavegacaoInteligente
    representacao_mapa, \* the normalized map built by __init__
    posicao_saida,      \* the local posicao_saida of _retornar_a_saida, Nenhum for None
    missao,             \* where executar_missao_resgate is, "concluida" and "falhou" at its end
    erro_missao         \* the error it raises to its caller, "nenhum" if none

mundo == <<labirinto, posicao_agente, direcao_agente, objeto_coletado>>
varsMundo == <<ambiente, labirinto, posicao_agente, direcao_agente, objeto_coletado, comando,
              erro>>
varsAstar == <<mapa, posicao_inicial, posicao_objetivo, fila_prioridade, nos_abertos,
               nos_visitados, nos, astar, caminho>>
varsExplorador == <<mapa_conhecido, posicoes_visitadas, pilha_navegacao, posicao_objeto,
                    max_iteracoes, iteracao, explorador>>
varsMissao == <<representacao_mapa, posicao_saida, missao, erro_missao>>
vars == <<varsMundo, varsAstar, varsExplorador, varsMissao, emitidos>>
\* what a command of the grid world, a step of the search and a step of the
\* explorer leave alone
foraMundo == <<ambiente, varsAstar, varsExplorador, varsMissao, emitidos>>
foraAstar == <<varsMundo, varsExplorador, varsMissao, emitidos>>
foraExplorador == <<ambiente, varsAstar, varsMissao, comando, erro>>

\* ------------------------------------------------------------------------
\* Cell contents
\* ------------------------------------------------------------------------
Paredes == {"*", "X"}
Objetos == {"H", "@"}

\* number of rows, and the width the grid world uses everywhere: len(labirinto[0])
NumLinhas(lab) == Len(lab)
Largura0(lab) == Len(lab[1])

\* the bounds test of the grid world: 0 <= r < len(lab) and 0 <= c < len(lab[0])
DentroLimites(lab, r, c) ==
    /\ 0 <= r /\ r < NumLinhas(lab)
    /\ 0 <= c /\ c < Largura0(lab)

\* the row r really holds a column c (lab[r][c] does not raise IndexError)
CelulaExiste(lab, r, c) ==
    /\ 0 <= r /\ r < NumLinhas(lab)
    /\ 0 <= c /\ c < Len(lab[r + 1])

Celula(lab, r, c) == lab[r + 1][c + 1]

\* ------------------------------------------------------------------------
\* Construction: __init__, _localizar_ponto_entrada, _calcular_orientacao_inicial
\* ------------------------------------------------------------------------
Posicoes(lab) ==
    {<<r, c>> : r \in 0..(NumLinhas(lab) - 1), c \in 0..(NumCols + 1)}

Ocorrencias(lab, chars) ==
    {p \in Posicoes(lab) : CelulaExiste(lab, p[1], p[2]) /\ Celula(lab, p[1], p[2]) \in chars}

_localizar_ponto_entrada(lab) ==
    CHOOSE p \in Ocorrencias(lab, {"E"}) : TRUE

\* a plausible slip: the column test comes before the row tests
_calcular_orientacao_inicial_colunaPrimeiro(lab, pos) ==
    IF pos[2] = 0 THEN 1
    ELSE IF pos[1] = 0 THEN 2
    ELSE IF pos[1] = NumLinhas(lab) - 1 THEN 0
    ELSE 3

_calcular_orientacao_inicial(lab, pos) ==
    IF pos[1] = 0 THEN 2
    ELSE IF pos[1] = NumLinhas(lab) - 1 THEN 0
    ELSE IF pos[2] = 0 THEN 1
    ELSE 3

\* the map passes _localizar_ponto_entrada and _validar_integridade_mapa
_validar_integridade_mapa(lab) ==
    /\ Cardinality(Ocorrencias(lab, {"E"})) = 1
    /\ Cardinality(Ocorrencias(lab, Objetos)) = 1

\* a plausible slip: the objects are not counted
ErroConstrucao_semObjetos(lab) ==
    IF Cardinality(Ocorrencias(lab, {"E"})) = 0 THEN "erro_sem_entrada"
    ELSE IF Cardinality(Ocorrencias(lab, {"E"})) > 1 THEN "erro_multiplas_entradas"
    ELSE "nenhum"

\* how __init__ ends: the ValueError of _localizar_ponto_entrada or of
\* _validar_integridade_mapa, or no error
ErroConstrucao(lab) ==
    IF Cardinality(Ocorrencias(lab, {"E"})) = 0 THEN "erro_sem_entrada"
    ELSE IF Cardinality(Ocorrencias(lab, {"E"})) > 1 THEN "erro_multiplas_entradas"
    ELSE IF Cardinality(Ocorrencias(lab, Objetos)) # 1 THEN "erro_objetos"
    ELSE "nenhum"

\* __init__ on the list labirinto: the attributes assigned before the error,
\* if any, keep their value
AmbienteNavegacao ==
    /\ ambiente = "chamado"
    /\ ambiente' = (IF ErroConstrucao(labirinto) = "nenhum" THEN "construido"
                    ELSE ErroConstrucao(labirinto))
    /\ IF ErroConstrucao(labirinto) \in {"erro_sem_entrada", "erro_multiplas_entradas"}
       THEN UNCHANGED <<posicao_agente, direcao_agente, objeto_coletado>>
       ELSE /\ posicao_agente' = _localizar_ponto_entrada(labirinto)
            /\ direcao_agente' =
                  _calcular_orientacao_inicial(labirinto, _localizar_ponto_entrada(labirinto))
            /\ objeto_coletado' = FALSE
    /\ UNCHANGED <<labirinto, comando, erro, varsAstar, varsExplorador, varsMissao, emitidos>>

\* ------------------------------------------------------------------------
\* Maps the model is run on
\* ------------------------------------------------------------------------
CelulasDe(lens) ==
    {p \in (0..(NumRows - 1)) \X (0..(NumCols - 1)) : p[2] < lens[p[1] + 1]}

\* both spellings of a wall and of the object occur in the generated maps
ParedeEm(p) == IF (p[1] + p[2]) % 2 = 0 THEN "*" ELSE "X"
ObjetoEm(p) == IF (p[1] + p[2]) % 2 = 0 THEN "H" ELSE "@"

GerarMapa(lens, e, h, abertos) ==
    [r \in 1..NumRows |->
        [c \in 1..lens[r] |->
            IF <<r - 1, c - 1>> = e THEN "E"
            ELSE IF <<r - 1, c - 1>> = h THEN ObjetoEm(h)
            ELSE IF <<r - 1, c - 1>> \in abertos THEN " "
            ELSE ParedeEm(<<r - 1, c - 1>>)]]

Adjacentes(p, q) ==
    \/ p[1] = q[1] /\ (p[2] = q[2] + 1 \/ q[2] = p[2] + 1)
    \/ p[2] = q[2] /\ (p[1] = q[1] + 1 \/ q[1] = p[1] + 1)

\* the 4-connected sets of at most n cells that contain e
RECURSIVE Regioes(_, _, _)
Regioes(e, n, celulas) ==
    IF n <= 1 THEN {{e}}
    ELSE LET menores == Regioes(e, n - 1, celulas) IN
         menores \cup
         UNION { { reg \cup {q} : q \in {c \in celulas \ reg : \E p \in reg : Adjacentes(p, c)} }
                 : reg \in menores }

\* lab is a map with rows of the lengths lens, one entrance, one object and at
\* most maxOpen open-floor cells, each of them connected to the entrance
\* through cells that are not walls (a cell the agent can never stand next to
\* plays no part in a run)
MapaGerado(lab, conjLens, maxOpen) ==
    \E lens \in conjLens :
        \E e \in CelulasDe(lens) :
            \E reg \in Regioes(e, maxOpen + 2, CelulasDe(lens)) :
                \E h \in CelulasDe(lens) \ {e} :
                    /\ Cardinality(reg \ {e, h}) <= maxOpen
                    /\ lab = GerarMapa(lens, e, h, reg \ {e, h})

\* rectangular maps, and maps with one row one cell shorter than the others
LensRetangular == {[r \in 1..NumRows |-> NumCols]}
LensIrregular ==
    LensRetangular \cup
    {[r \in 1..NumRows |-> IF r = curta THEN NumCols - 1 ELSE NumCols] : curta \in 1..NumRows}

\* ------------------------------------------------------------------------
\* Sensors: obter_leituras_sensores_proximidade
\* ------------------------------------------------------------------------
direcoes_relativas(d) ==
    CASE d = 0 -> << <<-1, -1>>, <<-1, 0>>, <<-1, 1>> >>
      [] d = 1 -> << <<-1, 1>>, <<0, 1>>, <<1, 1>> >>
      [] d = 2 -> << <<1, 1>>, <<1, 0>>, <<1, -1>> >>
      [] d = 3 -> << <<1, -1>>, <<0, -1>>, <<-1, -1>> >>

\* one reading; "INDEX" stands for the IndexError of lab[r][c] on a short row
LeituraCelula(lab, r, c) ==
    IF DentroLimites(lab, r, c)
    THEN IF ~CelulaExiste(lab, r, c) THEN "INDEX"
         ELSE IF Celula(lab, r, c) \in Paredes THEN "PAREDE"
         ELSE IF Celula(lab, r, c) \in Objetos THEN "HUMANO"
         ELSE "VAZIO"
    ELSE "PAREDE"

obter_leituras_sensores_proximidade(lab, pos, d) ==
    [k \in 1..3 |->
        LeituraCelula(lab, pos[1] + direcoes_relativas(d)[k][1],
                           pos[2] + direcoes_relativas(d)[k][2])]

\* the call raises IndexError: some reading indexes past the end of a short row
LeiturasFalham(lab, pos, d) ==
    \E k \in 1..3 : obter_leituras_sensores_proximidade(lab, pos, d)[k] = "INDEX"

\* ------------------------------------------------------------------------
\* Commands: executar_comando_navegacao
\* ------------------------------------------------------------------------
direcoes_movimento(d) ==
    CASE d = 0 -> <<-1, 0>>
      [] d = 1 -> <<0, 1>>
      [] d = 2 -> <<1, 0>>
      [] d = 3 -> <<0, -1>>

CelulaFrente(pos, d) ==
    <<pos[1] + direcoes_movimento(d)[1], pos[2] + direcoes_movimento(d)[2]>>

\* outcome of _avancar_agente: "nenhum" (moves), "colisao" (ValueError) or
\* "index" (IndexError: the target row is shorter than the first row)
ErroAvancar(lab, pos, d) ==
    LET alvo == CelulaFrente(pos, d) IN
    IF ~DentroLimites(lab, alvo[1], alvo[2]) THEN "colisao"
    ELSE IF ~CelulaExiste(lab, alvo[1], alvo[2]) THEN "index"
    ELSE IF Celula(lab, alvo[1], alvo[2]) \in Paredes THEN "colisao"
    ELSE "nenhum"

\* a plausible slip: the wall test of the guard is dropped
PosAposAvancar_semParede(lab, pos, d) ==
    LET alvo == CelulaFrente(pos, d) IN
    IF DentroLimites(lab, alvo[1], alvo[2]) /\ CelulaExiste(lab, alvo[1], alvo[2])
    THEN alvo ELSE pos

PosAposAvancar(lab, pos, d) ==
    IF ErroAvancar(lab, pos, d) = "nenhum" THEN CelulaFrente(pos, d) ELSE pos

_avancar_agente ==
    /\ ambiente = "construido"
    /\ comando' = "A"
    /\ erro' = ErroAvancar(labirinto, posicao_agente, direcao_agente)
    /\ posicao_agente' = PosAposAvancar(labirinto, posicao_agente, direcao_agente)
    /\ UNCHANGED <<labirinto, direcao_agente, objeto_coletado, foraMundo>>

\* a plausible slip: the turn goes the other way round
DirAposGirar_antiHorario(d) == (d + 3) % 4

DirAposGirar(d) == (d + 1) % 4

_girar_agente ==
    /\ ambiente = "construido"
    /\ comando' = "G"
    /\ erro' = "nenhum"
    /\ direcao_agente' = DirAposGirar(direcao_agente)
    /\ UNCHANGED <<labirinto, posicao_agente, objeto_coletado, foraMundo>>

\* outcome of _coletar_objeto
ErroColetar(lab, pos, d) ==
    IF LeiturasFalham(lab, pos, d) THEN "index"
    ELSE IF obter_leituras_sensores_proximidade(lab, pos, d)[2] = "HUMANO" THEN "nenhum"
    ELSE "sem_objeto"

\* a plausible slip: the cell of the object is closed behind it
LabAposColetar_fechaCelula(lab, pos, d) ==
    LET alvo == CelulaFrente(pos, d) IN
    [lab EXCEPT ![alvo[1] + 1] = [@ EXCEPT ![alvo[2] + 1] = "X"]]

\* a plausible slip: the object is taken and its cell is left as it was
LabAposColetar_semRemover(lab, pos, d) == lab

\* the grid after a successful _coletar_objeto: the cell in front becomes ' '
LabAposColetar(lab, pos, d) ==
    LET alvo == CelulaFrente(pos, d) IN
    [lab EXCEPT ![alvo[1] + 1] = [@ EXCEPT ![alvo[2] + 1] = " "]]

_coletar_objeto ==
    /\ ambiente = "construido"
    /\ comando' = "P"
    /\ erro' = ErroColetar(labirinto, posicao_agente, direcao_agente)
    /\ IF ErroColetar(labirinto, posicao_agente, direcao_agente) = "nenhum"
       THEN /\ objeto_coletado' = TRUE
            /\ labirinto' = LabAposColetar(labirinto, posicao_agente, direcao_agente)
       ELSE UNCHANGED <<objeto_coletado, labirinto>>
    /\ UNCHANGED <<posicao_agente, direcao_agente, foraMundo>>

_verificar_posicao_saida(lab, pos) ==
    \/ pos[1] = 0
    \/ pos[1] = NumLinhas(lab) - 1
    \/ pos[2] = 0
    \/ pos[2] = Largura0(lab) - 1

\* outcome of _ejetar_objeto
ErroEjetar(lab, pos, carregando) ==
    IF ~carregando THEN "sem_carga"
    ELSE IF ~_verificar_posicao_saida(lab, pos) THEN "fora_saida"
    ELSE "nenhum"

_ejetar_objeto ==
    /\ ambiente = "construido"
    /\ comando' = "E"
    /\ erro' = ErroEjetar(labirinto, posicao_agente, objeto_coletado)
    /\ objeto_coletado' =
          IF ErroEjetar(labirinto, posicao_agente, objeto_coletado) = "nenhum"
          THEN FALSE ELSE objeto_coletado
    /\ UNCHANGED <<labirinto, posicao_agente, direcao_agente, foraMundo>>

\* ------------------------------------------------------------------------
\* A* search: astar_labirinto.py
\* ------------------------------------------------------------------------
Abs(x) == IF x < 0 THEN -x ELSE x

calcular_distancia_manhattan(posicao_atual, objetivo) ==
    Abs(posicao_atual[1] - objetivo[1]) + Abs(posicao_atual[2] - objetivo[2])

\* the neighbours tried, in the order North, South, East, West
direcoes_astar == << <<-1, 0>>, <<1, 0>>, <<0, 1>>, <<0, -1>> >>

\* a plausible slip: the wall test is dropped
VizinhoValido_semParede(m, p) ==
    /\ 0 <= p[1] /\ p[1] < Len(m)
    /\ 0 <= p[2] /\ p[2] < Len(m[1])

VizinhoValido(m, p) ==
    /\ 0 <= p[1] /\ p[1] < Len(m)
    /\ 0 <= p[2] /\ p[2] < Len(m[1])
    /\ m[p[1] + 1][p[2] + 1] # "*"

RECURSIVE VizinhosDesde(_, _, _)
VizinhosDesde(posicao, m, k) ==
    IF k > 4 THEN <<>>
    ELSE LET p == <<posicao[1] + direcoes_astar[k][1], posicao[2] + direcoes_astar[k][2]>>
             resto == VizinhosDesde(posicao, m, k + 1)
         IN  IF VizinhoValido(m, p) THEN <<p>> \o resto ELSE resto

obter_vizinhos_validos(posicao, m) == VizinhosDesde(posicao, m, 1)

Nenhum == <<-1, -1>>

NoNavegacao(posicao, custo_g, custo_h, no_pai) ==
    [posicao |-> posicao, custo_g |-> custo_g, custo_h |-> custo_h,
     custo_f |-> custo_g + custo_h, no_pai |-> no_pai]

RECURSIVE reconstruir_caminho_otimo(_, _)
reconstruir_caminho_otimo(ns, posicao) ==
    IF ns[posicao].no_pai = Nenhum THEN <<posicao>>
    ELSE Append(reconstruir_caminho_otimo(ns, ns[posicao].no_pai), posicao)

\* the input validation of algoritmo_busca_astar, in its order
\* a plausible slip: the goal is tested before the start
ErroEntradaAstar_objetivoPrimeiro(m, ini, obj) ==
    IF m = <<>> \/ m[1] = <<>> THEN "mapa_vazio"
    ELSE IF obj[1] < 0 \/ obj[1] >= Len(m) \/ obj[2] < 0 \/ obj[2] >= Len(m[1])
    THEN "objetivo_invalido"
    ELSE IF ini[1] < 0 \/ ini[1] >= Len(m) \/ ini[2] < 0 \/ ini[2] >= Len(m[1])
    THEN "inicial_invalida"
    ELSE IF m[obj[1] + 1][obj[2] + 1] = "*" THEN "objetivo_obstaculo"
    ELSE IF m[ini[1] + 1][ini[2] + 1] = "*" THEN "inicial_obstaculo"
    ELSE "nenhum"

\* a plausible slip: the last row and the last column are out of bounds
ErroEntradaAstar_limiteEstrito(m, ini, obj) ==
    IF m = <<>> \/ m[1] = <<>> THEN "mapa_vazio"
    ELSE IF ini[1] < 0 \/ ini[1] >= Len(m) - 1 \/ ini[2] < 0 \/ ini[2] >= Len(m[1]) - 1
    THEN "inicial_invalida"
    ELSE IF obj[1] < 0 \/ obj[1] >= Len(m) - 1 \/ obj[2] < 0 \/ obj[2] >= Len(m[1]) - 1
    THEN "objetivo_invalido"
    ELSE IF m[ini[1] + 1][ini[2] + 1] = "*" THEN "inicial_obstaculo"
    ELSE IF m[obj[1] + 1][obj[2] + 1] = "*" THEN "objetivo_obstaculo"
    ELSE "nenhum"

ErroEntradaAstar(m, ini, obj) ==
    IF m = <<>> \/ m[1] = <<>> THEN "mapa_vazio"
    ELSE IF ini[1] < 0 \/ ini[1] >= Len(m) \/ ini[2] < 0 \/ ini[2] >= Len(m[1])
    THEN "inicial_invalida"
    ELSE IF obj[1] < 0 \/ obj[1] >= Len(m) \/ obj[2] < 0 \/ obj[2] >= Len(m[1])
    THEN "objetivo_invalido"
    ELSE IF m[ini[1] + 1][ini[2] + 1] = "*" THEN "inicial_obstaculo"
    ELSE IF m[obj[1] + 1][obj[2] + 1] = "*" THEN "objetivo_obstaculo"
    ELSE "nenhum"

\* lines 186-222: validation, the start = goal case, the first node
AstarInicio ==
    /\ astar = "chamado"
    /\ LET e == ErroEntradaAstar(mapa, posicao_inicial, posicao_objetivo) IN
       IF e # "nenhum"
       THEN /\ astar' = e
            /\ UNCHANGED <<fila_prioridade, nos_abertos, nos_visitados, nos, caminho>>
       ELSE IF posicao_inicial = posicao_objetivo
       THEN /\ astar' = "encontrado"
            /\ caminho' = <<posicao_inicial>>
            /\ UNCHANGED <<fila_prioridade, nos_abertos, nos_visitados, nos>>
       ELSE /\ astar' = "buscando"
            /\ nos' = (posicao_inicial :>
                         NoNavegacao(posicao_inicial, 0,
                             calcular_distancia_manhattan(posicao_inicial, posicao_objetivo),
                             Nenhum))
            /\ fila_prioridade' = {posicao_inicial}
            /\ nos_abertos' = {posicao_inicial}
            /\ nos_visitados' = {}
            /\ caminho' = <<>>
    /\ UNCHANGED <<mapa, posicao_inicial, posicao_objetivo, foraAstar>>

\* a plausible slip: the test for visited neighbours is left out
RECURSIVE ExplorarVizinhos_semVisitados(_, _, _, _, _)
ExplorarVizinhos_semVisitados(st, atual, vizinhos, k, objetivo) ==
    IF k > Len(vizinhos) THEN st
    ELSE LET v == vizinhos[k]
             custo_g_vizinho == st.nos[atual].custo_g + 1
             custo_h_vizinho == calcular_distancia_manhattan(v, objetivo)
             novo ==
                IF v \in st.abertos
                THEN IF custo_g_vizinho < st.nos[v].custo_g
                     THEN [st EXCEPT !.nos[v] =
                             [@ EXCEPT !.custo_g = custo_g_vizinho,
                                       !.custo_f = custo_g_vizinho + custo_h_vizinho,
                                       !.no_pai = atual]]
                     ELSE st
                ELSE [nos |-> (v :> NoNavegacao(v, custo_g_vizinho, custo_h_vizinho, atual))
                                  @@ st.nos,
                      abertos |-> st.abertos \cup {v},
                      fila |-> st.fila \cup {v}]
         IN  ExplorarVizinhos_semVisitados(novo, atual, vizinhos, k + 1, objetivo)

\* lines 245-272: the neighbours of no_atual from the k-th on, applied to the
\* search state st = [nos, abertos, fila]
RECURSIVE ExplorarVizinhos(_, _, _, _, _)
ExplorarVizinhos(st, atual, vizinhos, k, objetivo) ==
    IF k > Len(vizinhos) THEN st
    ELSE LET v == vizinhos[k]
             custo_g_vizinho == st.nos[atual].custo_g + 1
             custo_h_vizinho == calcular_distancia_manhattan(v, objetivo)
             novo ==
                IF v \in nos_visitados \cup {atual} THEN st
                ELSE IF v \in st.abertos
                THEN IF custo_g_vizinho < st.nos[v].custo_g
                     THEN [st EXCEPT !.nos[v] =
                             [@ EXCEPT !.custo_g = custo_g_vizinho,
                                       !.custo_f = custo_g_vizinho + custo_h_vizinho,
                                       !.no_pai = atual]]
                     ELSE st
                ELSE [nos |-> (v :> NoNavegacao(v, custo_g_vizinho, custo_h_vizinho, atual))
                                  @@ st.nos,
                      abertos |-> st.abertos \cup {v},
                      fila |-> st.fila \cup {v}]
         IN  ExplorarVizinhos(novo, atual, vizinhos, k + 1, objetivo)

\* heappop: a node of least custo_f; which one among equals depends on the
\* order of the insertions, so any of them may come out
\* (a plausible slip: the heap order is lost and any open node comes out)
MenorCusto_qualquer(fila, ns) == fila

MenorCusto(fila, ns) ==
    {p \in fila : \A q \in fila : ~(ns[q].custo_f < ns[p].custo_f)}

\* lines 225-272: one iteration of the main loop
AstarIteracao ==
    /\ astar = "buscando"
    /\ fila_prioridade # {}
    /\ \E no_atual \in MenorCusto(fila_prioridade, nos) :
        IF no_atual = posicao_objetivo
        THEN /\ astar' = "encontrado"
             /\ caminho' = reconstruir_caminho_otimo(nos, no_atual)
             /\ fila_prioridade' = fila_prioridade \ {no_atual}
             /\ UNCHANGED <<nos_abertos, nos_visitados, nos>>
        ELSE LET st == ExplorarVizinhos(
                          [nos |-> nos, abertos |-> nos_abertos \ {no_atual},
                           fila |-> fila_prioridade \ {no_atual}],
                          no_atual, obter_vizinhos_validos(no_atual, mapa), 1,
                          posicao_objetivo)
             IN  /\ nos_visitados' = nos_visitados \cup {no_atual}
                 /\ nos' = st.nos
                 /\ nos_abertos' = st.abertos
                 /\ fila_prioridade' = st.fila
                 /\ UNCHANGED <<astar, caminho>>
    /\ UNCHANGED <<mapa, posicao_inicial, posicao_objetivo, foraAstar>>

\* lines 274-276: the heap is empty, the call returns None
AstarFim ==
    /\ astar = "buscando"
    /\ fila_prioridade = {}
    /\ astar' = "sem_caminho"
    /\ UNCHANGED <<mapa, posicao_inicial, posicao_objetivo, fila_prioridade,
                   nos_abertos, nos_visitados, nos, caminho, foraAstar>>

AstarInativo ==
    /\ mapa = <<>>
    /\ posicao_inicial = Nenhum
    /\ posicao_objetivo = Nenhum
    /\ fila_prioridade = {}
    /\ nos_abertos = {}
    /\ nos_visitados = {}
    /\ nos = <<>>
    /\ astar = "inativo"
    /\ caminho = <<>>

\* ------------------------------------------------------------------------
\* Sensor-only exploration: explorador_simples.py
\* ------------------------------------------------------------------------
\* src/src/explorador_simples.py:46, the default of max_iteracoes
MaxIteracoesPadrao == 500

Gravar(mc, p, v) == [q \in (DOMAIN mc) \cup {p} |-> IF q = p THEN v ELSE mc[q]]

\* a plausible slip: the two diagonals are exchanged
mapa_direcoes_sensores_diagonaisTrocadas(d) ==
    CASE d = 0 -> << <<-1, 1>>, <<-1, 0>>, <<-1, -1>> >>
      [] d = 1 -> << <<1, 1>>, <<0, 1>>, <<-1, 1>> >>
      [] d = 2 -> << <<1, -1>>, <<1, 0>>, <<1, 1>> >>
      [] d = 3 -> << <<-1, -1>>, <<0, -1>>, <<1, -1>> >>

\* the table mapa_direcoes_sensores of _atualizar_mapa_com_sensores
mapa_direcoes_sensores(d) ==
    CASE d = 0 -> << <<-1, -1>>, <<-1, 0>>, <<-1, 1>> >>
      [] d = 1 -> << <<-1, 1>>, <<0, 1>>, <<1, 1>> >>
      [] d = 2 -> << <<1, 1>>, <<1, 0>>, <<1, -1>> >>
      [] d = 3 -> << <<1, -1>>, <<0, -1>>, <<-1, -1>> >>

\* lines 152-163 for the readings idx..3, on st = [mc, obj]
RECURSIVE AtualizarDesde(_, _, _, _, _)
AtualizarDesde(st, posicao_atual, d, leituras, idx) ==
    IF idx > 3 THEN st
    ELSE LET n == <<posicao_atual[1] + mapa_direcoes_sensores(d)[idx][1],
                    posicao_atual[2] + mapa_direcoes_sensores(d)[idx][2]>>
             celula_lida == leituras[idx]
             novo ==
                IF celula_lida = "PAREDE" THEN [st EXCEPT !.mc = Gravar(st.mc, n, "X")]
                ELSE IF celula_lida = "HUMANO"
                THEN [mc |-> Gravar(st.mc, n, "@"), obj |-> n]
                ELSE IF celula_lida = "VAZIO" /\ n \notin DOMAIN st.mc
                THEN [st EXCEPT !.mc = Gravar(st.mc, n, ".")]
                ELSE st
         IN  AtualizarDesde(novo, posicao_atual, d, leituras, idx + 1)

_atualizar_mapa_com_sensores(mc, obj, posicao_atual, lab, pos, d) ==
    AtualizarDesde([mc |-> mc, obj |-> obj], posicao_atual, d,
                   obter_leituras_sensores_proximidade(lab, pos, d), 1)

\* a plausible slip: the cell to the right is tried before the one in front
direcoes_absolutas_direitaPrimeiro(d) ==
    CASE d = 0 -> << <<0, 1>>, <<-1, 0>>, <<0, -1>> >>
      [] d = 1 -> << <<1, 0>>, <<0, 1>>, <<-1, 0>> >>
      [] d = 2 -> << <<0, -1>>, <<1, 0>>, <<0, 1>> >>
      [] d = 3 -> << <<-1, 0>>, <<0, -1>>, <<1, 0>> >>

\* the table direcoes_absolutas: front, right, left
direcoes_absolutas(d) ==
    CASE d = 0 -> << <<-1, 0>>, <<0, 1>>, <<0, -1>> >>
      [] d = 1 -> << <<0, 1>>, <<1, 0>>, <<-1, 0>> >>
      [] d = 2 -> << <<1, 0>>, <<0, -1>>, <<0, 1>> >>
      [] d = 3 -> << <<0, -1>>, <<-1, 0>>, <<1, 0>> >>

Candidata(mc, visitadas, posicao_atual, d, k) ==
    <<posicao_atual[1] + direcoes_absolutas(d)[k][1],
      posicao_atual[2] + direcoes_absolutas(d)[k][2]>>

\* a plausible slip: a visited position is taken for a candidate again
CandidataServe_semVisitadas(mc, visitadas, p) ==
    ~(p \in DOMAIN mc /\ mc[p] = "X")

CandidataServe(mc, visitadas, p) ==
    /\ p \notin visitadas
    /\ ~(p \in DOMAIN mc /\ mc[p] = "X")

\* Nenhum for None
_encontrar_proxima_posicao_para_explorar(mc, visitadas, posicao_atual, d) ==
    IF CandidataServe(mc, visitadas, Candidata(mc, visitadas, posicao_atual, d, 1))
    THEN Candidata(mc, visitadas, posicao_atual, d, 1)
    ELSE IF CandidataServe(mc, visitadas, Candidata(mc, visitadas, posicao_atual, d, 2))
    THEN Candidata(mc, visitadas, posicao_atual, d, 2)
    ELSE IF CandidataServe(mc, visitadas, Candidata(mc, visitadas, posicao_atual, d, 3))
    THEN Candidata(mc, visitadas, posicao_atual, d, 3)
    ELSE Nenhum

\* the direction _mover_para and _navegar_para_posicao turn to; -1: no move
\* a plausible slip: a step down the rows is taken for a step up
DirecaoAlvo_sulNorte(atual, alvo) ==
    LET dx == alvo[1] - atual[1]
        dy == alvo[2] - atual[2]
    IN  IF dx = 1 THEN 0
        ELSE IF dx = -1 THEN 2
        ELSE IF dy = 1 THEN 1
        ELSE IF dy = -1 THEN 3
        ELSE -1

DirecaoAlvo(atual, alvo) ==
    LET dx == alvo[1] - atual[1]
        dy == alvo[2] - atual[2]
    IN  IF dx = 1 THEN 2
        ELSE IF dx = -1 THEN 0
        ELSE IF dy = 1 THEN 1
        ELSE IF dy = -1 THEN 3
        ELSE -1

\* _ajustar_direcao: the Rotate commands that turn the agent from d to da
_ajustar_direcao(d, da) == [k \in 1..((da - d + 4) % 4) |-> "G"]

\* _mover_para: turn to the target, then Advance; [pos, dir, erro] afterwards
\* and the commands given, cmds
_mover_para(lab, pos, d, alvo) ==
    LET da == DirecaoAlvo(pos, alvo) IN
    IF da = -1 THEN [pos |-> pos, dir |-> d, erro |-> "nenhum", cmds |-> <<>>]
    ELSE [pos |-> PosAposAvancar(lab, pos, da), dir |-> da,
          erro |-> ErroAvancar(lab, pos, da),
          cmds |-> Append(_ajustar_direcao(d, da), "A")]

\* a plausible slip: the offsets of East and West are exchanged
_get_posicao_a_frente_lesteOeste(posicao_atual, d) ==
    CASE d = 0 -> <<posicao_atual[1] - 1, posicao_atual[2]>>
      [] d = 1 -> <<posicao_atual[1], posicao_atual[2] - 1>>
      [] d = 2 -> <<posicao_atual[1] + 1, posicao_atual[2]>>
      [] d = 3 -> <<posicao_atual[1], posicao_atual[2] + 1>>

_get_posicao_a_frente(posicao_atual, d) ==
    CASE d = 0 -> <<posicao_atual[1] - 1, posicao_atual[2]>>
      [] d = 1 -> <<posicao_atual[1], posicao_atual[2] + 1>>
      [] d = 2 -> <<posicao_atual[1] + 1, posicao_atual[2]>>
      [] d = 3 -> <<posicao_atual[1], posicao_atual[2] - 1>>

Topo(pilha) == pilha[Len(pilha)]

\* a plausible slip: the backtrack takes two positions off the stack
Desempilhar_dois(pilha) == SubSeq(pilha, 1, Len(pilha) - 2)

\* pilha_navegacao.pop()
Desempilhar(pilha) == SubSeq(pilha, 1, Len(pilha) - 1)

\* lines 77-83: the entrance is recorded and pushed
\* a plausible slip: the loop test lets one more iteration through
OrcamentoRestante_umaMais(it, maximo) == it <= maximo

\* line 85: the test of the while loop
OrcamentoRestante(it, maximo) == it < maximo

ExplorarInicio ==
    /\ explorador = "chamado"
    /\ explorador' = "explorando"
    /\ posicoes_visitadas' = posicoes_visitadas \cup {posicao_agente}
    /\ mapa_conhecido' = Gravar(mapa_conhecido, posicao_agente, "E")
    /\ pilha_navegacao' = Append(pilha_navegacao, posicao_agente)
    /\ iteracao' = 0
    /\ UNCHANGED <<posicao_objeto, max_iteracoes, mundo, foraExplorador, emitidos>>

\* lines 85-128: one iteration of the loop
ExplorarIteracao ==
    /\ explorador = "explorando"
    /\ OrcamentoRestante(iteracao, max_iteracoes)
    /\ iteracao' = iteracao + 1
    /\ UNCHANGED <<max_iteracoes, labirinto, objeto_coletado, foraExplorador>>
    /\ LET posicao_atual == Topo(pilha_navegacao)
           st == _atualizar_mapa_com_sensores(mapa_conhecido, posicao_objeto, posicao_atual,
                                              labirinto, posicao_agente, direcao_agente)
           leituras == obter_leituras_sensores_proximidade(labirinto, posicao_agente,
                                                           direcao_agente)
           frente == _get_posicao_a_frente(posicao_atual, direcao_agente)
           proxima == _encontrar_proxima_posicao_para_explorar(
                          st.mc, posicoes_visitadas, posicao_atual, direcao_agente)
       IN
       IF LeiturasFalham(labirinto, posicao_agente, direcao_agente)
       THEN \* obter_leituras_sensores_proximidade raises IndexError
            /\ explorador' = "erro_index"
            /\ UNCHANGED <<mapa_conhecido, posicoes_visitadas, pilha_navegacao,
                           posicao_objeto, posicao_agente, direcao_agente, emitidos>>
       ELSE IF leituras[2] = "HUMANO"
       THEN /\ explorador' = "encontrado"
            /\ posicao_objeto' = frente
            /\ mapa_conhecido' = Gravar(st.mc, frente, "@")
            /\ UNCHANGED <<posicoes_visitadas, pilha_navegacao, posicao_agente,
                           direcao_agente, emitidos>>
       ELSE IF proxima # Nenhum
       THEN LET m == _mover_para(labirinto, posicao_agente, direcao_agente, proxima) IN
            /\ mapa_conhecido' = st.mc
            /\ posicao_objeto' = st.obj
            /\ posicao_agente' = m.pos
            /\ direcao_agente' = m.dir
            /\ emitidos' = emitidos \o m.cmds
            /\ IF m.erro = "nenhum"
               THEN /\ posicoes_visitadas' = posicoes_visitadas \cup {m.pos}
                    /\ pilha_navegacao' = Append(pilha_navegacao, m.pos)
                    /\ explorador' = "explorando"
               ELSE /\ explorador' = (IF m.erro = "colisao" THEN "erro_colisao"
                                      ELSE "erro_index")
                    /\ UNCHANGED <<posicoes_visitadas, pilha_navegacao>>
       ELSE /\ mapa_conhecido' = st.mc
            /\ posicao_objeto' = st.obj
            /\ pilha_navegacao' = Desempilhar(pilha_navegacao)
            /\ UNCHANGED posicoes_visitadas
            /\ IF Desempilhar(pilha_navegacao) # <<>>
               THEN LET m == _mover_para(labirinto, posicao_agente, direcao_agente,
                                         Topo(Desempilhar(pilha_navegacao))) IN
                    /\ posicao_agente' = m.pos
                    /\ direcao_agente' = m.dir
                    /\ emitidos' = emitidos \o m.cmds
                    /\ explorador' = (IF m.erro = "nenhum" THEN "explorando"
                                      ELSE IF m.erro = "colisao" THEN "erro_colisao"
                                      ELSE "erro_index")
               ELSE \* the stack is empty: break, return False
                    /\ explorador' = "nao_encontrado"
                    /\ UNCHANGED <<posicao_agente, direcao_agente, emitidos>>

\* lines 85 and 130-131: the budget is used up, return False
ExplorarEsgotado ==
    /\ explorador = "explorando"
    /\ ~OrcamentoRestante(iteracao, max_iteracoes)
    /\ explorador' = "nao_encontrado"
    /\ UNCHANGED <<mapa_conhecido, posicoes_visitadas, pilha_navegacao, posicao_objeto,
                   max_iteracoes, iteracao, mundo, foraExplorador, emitidos>>

\* obter_estatisticas_exploracao
obter_estatisticas_exploracao ==
    [posicoes_exploradas |-> Cardinality(DOMAIN mapa_conhecido),
     profundidade_pilha |-> Len(pilha_navegacao),
     objeto_encontrado |-> posicao_objeto # Nenhum,
     posicao_objeto |-> posicao_objeto,
     posicao_atual |-> posicao_agente]

ExploradorNovo(estado, orcamentos) ==
    /\ mapa_conhecido = <<>>
    /\ posicoes_visitadas = {}
    /\ pilha_navegacao = <<>>
    /\ posicao_objeto = Nenhum
    /\ max_iteracoes \in orcamentos
    /\ iteracao = 0
    /\ explorador = estado
    /\ emitidos = <<>>

\* ------------------------------------------------------------------------
\* Mission: robo_resgate.py
\* ------------------------------------------------------------------------
LarguraMaxima(lab) ==
    CHOOSE n \in {Len(lab[r]) : r \in 1..Len(lab)} :
        \A r \in 1..Len(lab) : Len(lab[r]) <= n

\* a plausible slip: the short rows are filled up with open floor
_construir_representacao_mapa_preencheLivre(lab) ==
    [i \in 1..Len(lab) |->
        [j \in 1..LarguraMaxima(lab) |->
            IF j <= Len(lab[i])
            THEN IF lab[i][j] \in Paredes THEN "*" ELSE " "
            ELSE " "]]

_construir_representacao_mapa(lab) ==
    [i \in 1..Len(lab) |->
        [j \in 1..LarguraMaxima(lab) |->
            IF j <= Len(lab[i])
            THEN IF lab[i][j] \in Paredes THEN "*" ELSE " "
            ELSE "*"]]

Minimo(S) == CHOOSE x \in S : \A y \in S : x <= y

\* a plausible slip: only the first and last cell of each row are looked at
_localizar_saida_soLinhas(lab) ==
    LET linhasE == {i \in 1..Len(lab) :
                      Len(lab[i]) > 0 /\ (lab[i][1] = "E" \/ lab[i][Len(lab[i])] = "E")}
    IN  IF linhasE # {}
        THEN LET i == Minimo(linhasE) IN
             IF lab[i][1] = "E" THEN <<i - 1, 0>> ELSE <<i - 1, Len(lab[i]) - 1>>
        ELSE Nenhum

\* _localizar_saida: the first row whose first or last cell is 'E', else the
\* first column where the first or the last row holds 'E', else None
_localizar_saida(lab) ==
    LET linhasE == {i \in 1..Len(lab) :
                      Len(lab[i]) > 0 /\ (lab[i][1] = "E" \/ lab[i][Len(lab[i])] = "E")}
        colunasE == {j \in 1..LarguraMaxima(lab) :
                      \/ Len(lab[1]) >= j /\ lab[1][j] = "E"
                      \/ Len(lab[Len(lab)]) >= j /\ lab[Len(lab)][j] = "E"}
    IN  IF linhasE # {}
        THEN LET i == Minimo(linhasE) IN
             IF lab[i][1] = "E" THEN <<i - 1, 0>> ELSE <<i - 1, Len(lab[i]) - 1>>
        ELSE IF colunasE # {}
        THEN LET j == Minimo(colunasE) IN
             IF Len(lab[1]) >= j /\ lab[1][j] = "E" THEN <<0, j - 1>>
             ELSE <<Len(lab) - 1, j - 1>>
        ELSE Nenhum

\* outcome of _validar_estado_pos_coleta
ErroValidacao(lab, pos, d, carregando) ==
    LET leituras == obter_leituras_sensores_proximidade(lab, pos, d) IN
    IF ~carregando THEN "nenhum"
    ELSE IF LeiturasFalham(lab, pos, d) THEN "erro_index"
    ELSE IF \A k \in 1..3 : leituras[k] = "PAREDE" THEN "preso"
    ELSE IF {k \in 1..3 : leituras[k] = "VAZIO"} = {} THEN "beco_sem_saida"
    ELSE IF Len(leituras) # 3 THEN "falha_sensor"
    ELSE "nenhum"

\* _executar_sequencia_navegacao from the i-th position on: each
\* _navegar_para_posicao turns and advances, an error is caught and the next
\* position is tried; st = [pos, dir, cmds, erros], erros the errors caught
RECURSIVE _executar_sequencia_navegacao(_, _, _, _)
_executar_sequencia_navegacao(lab, st, sequencia_posicoes, i) ==
    IF i > Len(sequencia_posicoes) THEN st
    ELSE LET m == _mover_para(lab, st.pos, st.dir, sequencia_posicoes[i]) IN
         _executar_sequencia_navegacao(
             lab, [pos |-> m.pos, dir |-> m.dir, cmds |-> st.cmds \o m.cmds,
                  erros |-> IF m.erro = "nenhum" THEN st.erros
                            ELSE Append(st.erros, m.erro)],
             sequencia_posicoes, i + 1)

TerminouExploracao ==
    explorador \in {"encontrado", "nao_encontrado", "erro_colisao", "erro_index"}

\* a plausible slip: the result of the exploration is not looked at
MissaoAposExploracao_semTeste ==
    /\ missao = "explorando"
    /\ TerminouExploracao
    /\ IF explorador \in {"encontrado", "nao_encontrado"}
       THEN missao' = "coletando" /\ erro_missao' = "nenhum"
       ELSE missao' = "falhou" /\ erro_missao' = explorador
    /\ UNCHANGED <<representacao_mapa, posicao_saida, varsMundo, varsAstar, varsExplorador,
                   emitidos>>

\* lines 137-139 and 178-205: the exploration has returned or raised
MissaoAposExploracao ==
    /\ missao = "explorando"
    /\ TerminouExploracao
    /\ IF explorador = "encontrado"
       THEN missao' = "coletando" /\ erro_missao' = "nenhum"
       ELSE /\ missao' = "falhou"
            /\ erro_missao' = (IF explorador = "nao_encontrado"
                               THEN "objeto_nao_encontrado" ELSE explorador)
    /\ UNCHANGED <<representacao_mapa, posicao_saida, varsMundo, varsAstar, varsExplorador,
                   emitidos>>

\* lines 142 and 320-337: _coletar_objeto_detectado
MissaoColetar ==
    /\ missao = "coletando"
    /\ IF LeiturasFalham(labirinto, posicao_agente, direcao_agente)
       THEN /\ missao' = "falhou"
            /\ erro_missao' = "erro_index"
            /\ UNCHANGED <<labirinto, objeto_coletado, emitidos>>
       ELSE /\ missao' = "validando"
            /\ erro_missao' = "nenhum"
            /\ IF obter_leituras_sensores_proximidade(labirinto, posicao_agente,
                                                      direcao_agente)[2] = "HUMANO"
               THEN /\ objeto_coletado' = TRUE
                    /\ labirinto' = LabAposColetar(labirinto, posicao_agente, direcao_agente)
                    /\ emitidos' = Append(emitidos, "P")
               ELSE UNCHANGED <<labirinto, objeto_coletado, emitidos>>
    /\ UNCHANGED <<ambiente, posicao_agente, direcao_agente, comando, erro, representacao_mapa,
                   posicao_saida, varsAstar, varsExplorador>>

\* lines 147-150 and 409-448: _validar_estado_pos_coleta
MissaoValidar ==
    /\ missao = "validando"
    /\ LET e == ErroValidacao(labirinto, posicao_agente, direcao_agente, objeto_coletado) IN
       /\ erro_missao' = e
       /\ missao' = IF e # "nenhum" THEN "falhou"
                    ELSE IF objeto_coletado THEN "retornando"
                    ELSE "concluida"
    /\ UNCHANGED <<representacao_mapa, posicao_saida, varsMundo, varsAstar, varsExplorador,
                   emitidos>>

\* lines 346-355: the exit is located; the agent ejects at once if it stands on
\* it, else the return route is asked of the search
MissaoRetornar ==
    /\ missao = "retornando"
    /\ posicao_saida' = _localizar_saida(labirinto)
    /\ UNCHANGED <<ambiente, labirinto, posicao_agente, direcao_agente, comando, erro,
                   representacao_mapa, varsExplorador>>
    /\ IF posicao_agente = _localizar_saida(labirinto)
       THEN LET e == ErroEjetar(labirinto, posicao_agente, objeto_coletado) IN
            /\ objeto_coletado' = (IF e = "nenhum" THEN FALSE ELSE objeto_coletado)
            /\ erro_missao' = e
            /\ missao' = (IF e = "nenhum" THEN "concluida" ELSE "falhou")
            /\ emitidos' = Append(emitidos, "E")
            /\ UNCHANGED varsAstar
       ELSE IF _localizar_saida(labirinto) = Nenhum
       THEN \* busca_astar subscripts None: TypeError
            /\ missao' = "falhou"
            /\ erro_missao' = "erro_tipo"
            /\ UNCHANGED <<objeto_coletado, varsAstar, emitidos>>
       ELSE /\ missao' = "planejando"
            /\ erro_missao' = "nenhum"
            /\ mapa' = representacao_mapa
            /\ posicao_inicial' = posicao_agente
            /\ posicao_objetivo' = _localizar_saida(labirinto)
            /\ astar' = "chamado"
            /\ UNCHANGED <<objeto_coletado, fila_prioridade, nos_abertos, nos_visitados,
                           nos, caminho, emitidos>>

TerminouAstar == astar \notin {"inativo", "chamado", "buscando"}

\* a plausible slip: the Eject is issued wherever the replay has ended
MissaoPercorrer_semTeste ==
    /\ missao = "planejando"
    /\ TerminouAstar
    /\ UNCHANGED <<ambiente, labirinto, comando, erro, representacao_mapa, posicao_saida,
                   varsAstar,
                   varsExplorador>>
    /\ IF astar = "sem_caminho"
       THEN \* _retornar_a_saida returns None and the mission goes on to its end
            /\ missao' = "concluida"
            /\ erro_missao' = "nenhum"
            /\ UNCHANGED <<posicao_agente, direcao_agente, objeto_coletado, emitidos>>
       ELSE IF astar # "encontrado"
       THEN \* busca_astar raised ValueError
            /\ missao' = "falhou"
            /\ erro_missao' = astar
            /\ UNCHANGED <<posicao_agente, direcao_agente, objeto_coletado, emitidos>>
       ELSE LET st == _executar_sequencia_navegacao(
                          labirinto,
                          [pos |-> posicao_agente, dir |-> direcao_agente, cmds |-> <<>>,
                           erros |-> <<>>],
                          caminho, 2)
            IN  /\ posicao_agente' = st.pos
                /\ direcao_agente' = st.dir
                \* Eject at the exit; an error of it is caught, the second Eject
                \* of the handler fails the same way and is passed over
                /\ objeto_coletado' =
                      (IF ErroEjetar(labirinto, st.pos, objeto_coletado) = "nenhum"
                       THEN FALSE ELSE objeto_coletado)
                /\ emitidos' = emitidos \o st.cmds \o
                      (IF ErroEjetar(labirinto, st.pos, objeto_coletado) = "nenhum"
                       THEN <<"E">>
                       ELSE <<"E", "E">>)
                /\ missao' = "concluida"
                /\ erro_missao' = "nenhum"

\* lines 357-379 and 157-167: the route is replayed and the object ejected
MissaoPercorrer ==
    /\ missao = "planejando"
    /\ TerminouAstar
    /\ UNCHANGED <<ambiente, labirinto, comando, erro, representacao_mapa, posicao_saida,
                   varsAstar,
                   varsExplorador>>
    /\ IF astar = "sem_caminho"
       THEN \* _retornar_a_saida returns None and the mission goes on to its end
            /\ missao' = "concluida"
            /\ erro_missao' = "nenhum"
            /\ UNCHANGED <<posicao_agente, direcao_agente, objeto_coletado, emitidos>>
       ELSE IF astar # "encontrado"
       THEN \* busca_astar raised ValueError
            /\ missao' = "falhou"
            /\ erro_missao' = astar
            /\ UNCHANGED <<posicao_agente, direcao_agente, objeto_coletado, emitidos>>
       ELSE LET st == _executar_sequencia_navegacao(
                          labirinto,
                          [pos |-> posicao_agente, dir |-> direcao_agente, cmds |-> <<>>,
                           erros |-> <<>>],
                          caminho, 2)
            IN  /\ posicao_agente' = st.pos
                /\ direcao_agente' = st.dir
                \* Eject at the exit; an error of it is caught, the second Eject
                \* of the handler fails the same way and is passed over
                /\ objeto_coletado' =
                      (IF st.pos = posicao_saida
                          /\ ErroEjetar(labirinto, st.pos, objeto_coletado) = "nenhum"
                       THEN FALSE ELSE objeto_coletado)
                /\ emitidos' = emitidos \o st.cmds \o
                      (IF st.pos # posicao_saida THEN <<>>
                       ELSE IF ErroEjetar(labirinto, st.pos, objeto_coletado) = "nenhum"
                       THEN <<"E">>
                       ELSE <<"E", "E">>)
                /\ missao' = "concluida"
                /\ erro_missao' = "nenhum"

MissaoNova(estado) ==
    /\ representacao_mapa =
          (IF estado = "inativa" THEN <<>> ELSE _construir_representacao_mapa(labirinto))
    /\ posicao_saida = Nenhum
    /\ missao = estado
    /\ erro_missao = "nenhum"

\* ------------------------------------------------------------------------
\* The grid world driven by arbitrary commands
\* ------------------------------------------------------------------------
InitMundo(conjLens, maxOpen) ==
    /\ ambiente = "construido"
    /\ MapaGerado(labirinto, conjLens, maxOpen)
    /\ posicao_agente = _localizar_ponto_entrada(labirinto)
    /\ direcao_agente = _calcular_orientacao_inicial(labirinto, posicao_agente)
    /\ objeto_coletado = FALSE
    /\ comando = "-"
    /\ erro = "nenhum"

Init ==
    /\ InitMundo(LensIrregular, MaxOpenMundo)
    /\ AstarInativo
    /\ ExploradorNovo("inativo", {MaxIteracoesPadrao})
    /\ MissaoNova("inativa")

Next ==
    \/ _avancar_agente
    \/ _girar_agente
    \/ _coletar_objeto
    \/ _ejetar_objeto

Spec == Init /\ [][Next]_vars

\* ------------------------------------------------------------------------
\* The constructor called on any small map, accepted or not, and the
\* commands after it
\* ------------------------------------------------------------------------
MaxMarcas == 3

\* what a cell that is not a wall may hold
Marcas == {"E", "H", "@", " "}

\* lab is a grid of NumRows x NumCols cells of which at most MaxMarcas are not
\* walls: any number of entrances and of objects
MapaQualquer(lab) ==
    \E marcadas \in {m \in SUBSET CelulasDe([r \in 1..NumRows |-> NumCols]) :
                          Cardinality(m) <= MaxMarcas} :
        \E marca \in [marcadas -> Marcas] :
            lab = [r \in 1..NumRows |->
                      [c \in 1..NumCols |->
                          IF <<r - 1, c - 1>> \in marcadas THEN marca[<<r - 1, c - 1>>]
                          ELSE ParedeEm(<<r - 1, c - 1>>)]]

InitConstrucao ==
    /\ ambiente = "chamado"
    /\ MapaQualquer(labirinto)
    /\ posicao_agente = Nenhum
    /\ direcao_agente = 0
    \* the attribute does not exist yet: any value
    /\ objeto_coletado \in BOOLEAN
    /\ comando = "-"
    /\ erro = "nenhum"
    /\ AstarInativo
    /\ ExploradorNovo("inativo", {MaxIteracoesPadrao})
    /\ MissaoNova("inativa")

NextConstrucao ==
    \/ AmbienteNavegacao
    \/ _avancar_agente
    \/ _girar_agente
    \/ _coletar_objeto
    \/ _ejetar_objeto

SpecConstrucao == InitConstrucao /\ [][NextConstrucao]_vars

\* ------------------------------------------------------------------------
\* The search called on its own, on every small grid
\* ------------------------------------------------------------------------
CelulasGrade == (0..(NumRows - 1)) \X (0..(NumCols - 1))

\* the grids of NumRows x NumCols cells with at most MaxWalls walls
GradesAstar ==
    { [r \in 1..NumRows |-> [c \in 1..NumCols |->
            IF <<r - 1, c - 1>> \in muros THEN "*" ELSE " "]]
      : muros \in {w \in SUBSET CelulasGrade : Cardinality(w) <= MaxWalls} }

\* the cells of the grid and one position beyond each of its four sides
PosicoesTeste ==
    CelulasGrade \cup {<<-1, 0>>, <<0, -1>>, <<NumRows, 0>>, <<0, NumCols>>}

MundoInativo ==
    /\ ambiente = "inativo"
    /\ labirinto = <<>>
    /\ posicao_agente = Nenhum
    /\ direcao_agente = 0
    /\ objeto_coletado = FALSE
    /\ comando = "-"
    /\ erro = "nenhum"

InitAstar ==
    /\ MundoInativo
    /\ mapa \in GradesAstar \cup {<<>>, << <<>> >>}
    /\ posicao_inicial \in PosicoesTeste
    /\ posicao_objetivo \in PosicoesTeste
    /\ fila_prioridade = {}
    /\ nos_abertos = {}
    /\ nos_visitados = {}
    /\ nos = <<>>
    /\ astar = "chamado"
    /\ caminho = <<>>
    /\ ExploradorNovo("inativo", {MaxIteracoesPadrao})
    /\ MissaoNova("inativa")

NextAstar ==
    \/ AstarInicio
    \/ AstarIteracao
    \/ AstarFim

SpecAstar == InitAstar /\ [][NextAstar]_vars

\* the call runs to its return: the loop is not interrupted from outside
\* a corner, a cell of a side and an inner cell: the family of grids is closed
\* under the rotations and reflections of the square, so every start is one
\* of these up to symmetry
IniciosJusto == {<<0, 0>>, <<0, 1>>, <<1, 1>>}

InitAstarJusto ==
    /\ InitAstar
    /\ mapa \in GradesAstar
    /\ posicao_inicial \in IniciosJusto
    /\ posicao_objetivo \in CelulasGrade

SpecAstarJusto == InitAstarJusto /\ [][NextAstar]_vars /\ WF_vars(NextAstar)

\* ------------------------------------------------------------------------
\* The explorer called on its own, on every small rectangular map
\* ------------------------------------------------------------------------
\* a small budget next to the default one
MaxBudget == 3

InitExplorador ==
    /\ InitMundo(LensRetangular, MaxOpen)
    /\ AstarInativo
    /\ ExploradorNovo("chamado", {MaxBudget, MaxIteracoesPadrao})
    /\ MissaoNova("inativa")

NextExplorador ==
    \/ ExplorarInicio
    \/ ExplorarIteracao
    \/ ExplorarEsgotado

SpecExplorador == InitExplorador /\ [][NextExplorador]_vars

\* the explorer called on the ragged maps as well
MaxOpenIrregular == 2

InitExploradorIrregular ==
    /\ InitMundo(LensIrregular, MaxOpenIrregular)
    /\ AstarInativo
    /\ ExploradorNovo("chamado", {MaxBudget, MaxIteracoesPadrao})
    /\ MissaoNova("inativa")

SpecExploradorIrregular == InitExploradorIrregular /\ [][NextExplorador]_vars

\* ------------------------------------------------------------------------
\* The mission, on every small rectangular map and every smaller ragged one
\* ------------------------------------------------------------------------
InitMissao ==
    /\ \/ InitMundo(LensRetangular, MaxOpen)
       \/ InitMundo(LensIrregular, MaxOpenMundo)
    /\ AstarInativo
    \* the agent's explorer has the default budget; the small one stands for
    \* the default on a map too large for it
    /\ ExploradorNovo("chamado", {MaxBudget, MaxIteracoesPadrao})
    /\ MissaoNova("explorando")

NextMissao ==
    \/ ExplorarInicio
    \/ ExplorarIteracao
    \/ ExplorarEsgotado
    \/ MissaoAposExploracao
    \/ MissaoColetar
    \/ MissaoValidar
    \/ MissaoRetornar
    \/ AstarInicio
    \/ AstarIteracao
    \/ MissaoPercorrer

SpecMissao == InitMissao /\ [][NextMissao]_vars

\* the mission on more ragged maps: those of LensIrregular with one more open
\* cell, and maps with a wall column added to every row but the second, so
\* that the entrance can lie at the end of a row shorter than the first
LensSaidaCurta ==
    {[r \in 1..NumRows |-> IF r = 2 THEN NumCols ELSE NumCols + 1]}

InitMissaoIrregular ==
    /\ InitMundo(LensIrregular \cup LensSaidaCurta, MaxOpenIrregular)
    /\ AstarInativo
    /\ ExploradorNovo("chamado", {MaxBudget, MaxIteracoesPadrao})
    /\ MissaoNova("explorando")

SpecMissaoIrregular == InitMissaoIrregular /\ [][NextMissao]_vars

\* ------------------------------------------------------------------------
\* A route asked for and replayed from wherever commands have put the agent,
\* to any cell of the map that is not a wall, on the rectangular maps
\* ------------------------------------------------------------------------
\* the open cells of a map besides the entrance and the object
MaxOpenRota == 2

InitRota ==
    /\ InitMundo(LensRetangular, MaxOpenRota)
    /\ AstarInativo
    /\ ExploradorNovo("inativo", {MaxIteracoesPadrao})
    /\ MissaoNova("aguardando")

RotaAvancar == missao = "aguardando" /\ _avancar_agente

RotaGirar == missao = "aguardando" /\ _girar_agente

RotaColetar == missao = "aguardando" /\ _coletar_objeto

RotaEjetar == missao = "aguardando" /\ _ejetar_objeto

\* busca_astar(self.representacao_mapa, posicao_agente, objetivo), as at
\* robo_resgate.py:355, for any objetivo that is not a wall in the map
PedirRota ==
    /\ missao = "aguardando"
    /\ \E objetivo \in {p \in (0..(Len(representacao_mapa) - 1))
                              \X (0..(LarguraMaxima(labirinto) - 1)) :
                           representacao_mapa[p[1] + 1][p[2] + 1] # "*"} :
          posicao_objetivo' = objetivo
    /\ mapa' = representacao_mapa
    /\ posicao_inicial' = posicao_agente
    /\ astar' = "chamado"
    /\ missao' = "planejando"
    /\ UNCHANGED <<varsMundo, varsExplorador, representacao_mapa, posicao_saida, erro_missao,
                   fila_prioridade, nos_abertos, nos_visitados, nos, caminho, emitidos>>

\* lines 450-467: _executar_sequencia_navegacao on the route returned; the
\* first of the errors it has caught and printed is kept in erro_missao
PercorrerRota ==
    /\ missao = "planejando"
    /\ astar = "encontrado"
    /\ LET st == _executar_sequencia_navegacao(
                     labirinto,
                     [pos |-> posicao_agente, dir |-> direcao_agente, cmds |-> <<>>,
                      erros |-> <<>>],
                     caminho, 2)
       IN  /\ posicao_agente' = st.pos
           /\ direcao_agente' = st.dir
           /\ emitidos' = emitidos \o st.cmds
           /\ erro_missao' = (IF st.erros = <<>> THEN "nenhum" ELSE st.erros[1])
    /\ missao' = "percorrida"
    /\ UNCHANGED <<ambiente, labirinto, objeto_coletado, comando, erro, representacao_mapa,
                   posicao_saida, varsAstar, varsExplorador>>

NextRota ==
    \/ RotaAvancar
    \/ RotaGirar
    \/ RotaColetar
    \/ RotaEjetar
    \/ PedirRota
    \/ AstarInicio
    \/ AstarIteracao
    \/ AstarFim
    \/ PercorrerRota

SpecRota == InitRota /\ [][NextRota]_vars

\* ------------------------------------------------------------------------
\* The mission on the 5x5 map with one straight path: entrance at (0,2), open
\* cell at (1,2), object at (2,2), in every spelling of the walls (one per
\* row) and of the object
\* ------------------------------------------------------------------------
MapaCenario(paredes, objeto) ==
    [r \in 1..5 |->
        [c \in 1..5 |->
            IF c = 3 /\ r = 1 THEN "E"
            ELSE IF c = 3 /\ r = 2 THEN " "
            ELSE IF c = 3 /\ r = 3 THEN objeto
            ELSE paredes[r]]]

InitCenario ==
    /\ ambiente = "construido"
    /\ \E paredes \in [1..5 -> Paredes], objeto \in Objetos :
          labirinto = MapaCenario(paredes, objeto)
    /\ posicao_agente = _localizar_ponto_entrada(labirinto)
    /\ direcao_agente = _calcular_orientacao_inicial(labirinto, posicao_agente)
    /\ objeto_coletado = FALSE
    /\ comando = "-"
    /\ erro = "nenhum"
    /\ AstarInativo
    /\ ExploradorNovo("chamado", (1..MaxBudget) \cup {MaxIteracoesPadrao})
    /\ MissaoNova("explorando")

SpecCenario == InitCenario /\ [][NextMissao]_vars

\* AstarFim is no step of the mission: the cells the agent walked from the
\* entrance are open in representacao_mapa, so the open set of the return
\* search never empties before the exit is reached
RetornoNuncaEsgota ==
    ~(missao = "planejando" /\ astar = "buscando" /\ fila_prioridade = {})

\* ------------------------------------------------------------------------
\* The data model the properties are stated in: a grid as wide as its widest
\* row, a cell missing from a shorter row or off the grid being a Wall
\* ------------------------------------------------------------------------
Maximo(S) == CHOOSE x \in S : \A y \in S : y <= x

LarguraMax(lab) == Maximo({Len(lab[r]) : r \in 1..Len(lab)})

Conteudo(lab, p) ==
    IF p[1] < 0 \/ p[1] >= Len(lab) \/ p[2] < 0 \/ p[2] >= LarguraMax(lab) THEN "Wall"
    ELSE IF p[2] >= Len(lab[p[1] + 1]) THEN "Wall"
    ELSE IF lab[p[1] + 1][p[2] + 1] \in {"*", "X"} THEN "Wall"
    ELSE IF lab[p[1] + 1][p[2] + 1] \in {"H", "@"} THEN "Object"
    ELSE IF lab[p[1] + 1][p[2] + 1] = "E" THEN "Entrance"
    ELSE "Open"

NaBorda(lab, p) ==
    \/ p[1] = 0
    \/ p[1] = Len(lab) - 1
    \/ p[2] = 0
    \/ p[2] = LarguraMax(lab) - 1

TodasPosicoes(lab) ==
    {<<r, c>> : r \in (-1)..Len(lab), c \in (-1)..LarguraMax(lab)}

\* one step in the facing direction: North is up (row - 1), East is right
Adiante(p, d) ==
    CASE d = 0 -> <<p[1] - 1, p[2]>>
      [] d = 1 -> <<p[1], p[2] + 1>>
      [] d = 2 -> <<p[1] + 1, p[2]>>
      [] d = 3 -> <<p[1], p[2] - 1>>

\* ------------------------------------------------------------------------
\* Properties of the grid world
\* ------------------------------------------------------------------------

\* C1: after any sequence of commands, successful or failed, the agent's
\* position addresses a cell of the grid that is not a Wall.
C1_PosicaoValida ==
    /\ posicao_agente \in TodasPosicoes(labirinto)
    /\ Conteudo(labirinto, posicao_agente) # "Wall"

\* the agent has left the entrance and an Advance has then failed
C1_Witness ==
    /\ comando = "A"
    /\ erro = "colisao"
    /\ Conteudo(labirinto, posicao_agente) = "Open"

\* C6: an Advance whose target is off the grid or a Wall fails with
\* CollisionError and changes nothing; any other Advance moves the agent onto
\* the target and changes nothing else.
C6_AvancoConforme ==
    [][comando' = "A" =>
        IF Conteudo(labirinto, Adiante(posicao_agente, direcao_agente)) = "Wall"
        THEN /\ erro' = "colisao"
             /\ UNCHANGED mundo
        ELSE /\ erro' = "nenhum"
             /\ posicao_agente' = Adiante(posicao_agente, direcao_agente)
             /\ UNCHANGED <<labirinto, direcao_agente, objeto_coletado>>]_vars

\* C7: Pickup succeeds exactly when the cell in front holds the Object; then
\* carrying becomes true and that one cell becomes Open; otherwise it fails with
\* NoObjectAdjacentError and changes nothing.
C7_ColetaConforme ==
    [][comando' = "P" =>
        IF Conteudo(labirinto, Adiante(posicao_agente, direcao_agente)) = "Object"
        THEN /\ erro' = "nenhum"
             /\ objeto_coletado' = TRUE
             /\ Len(labirinto') = Len(labirinto)
             /\ \A r \in 1..Len(labirinto) : Len(labirinto'[r]) = Len(labirinto[r])
             /\ \A p \in TodasPosicoes(labirinto) :
                    Conteudo(labirinto', p) =
                        IF p = Adiante(posicao_agente, direcao_agente)
                        THEN "Open" ELSE Conteudo(labirinto, p)
             /\ UNCHANGED <<posicao_agente, direcao_agente>>
        ELSE /\ erro' = "sem_objeto"
             /\ UNCHANGED mundo]_vars

\* C8: Eject fails with NotCarryingError when carrying is false, with
\* NotAtExitError when carrying is true off the grid border, and otherwise
\* sets carrying to false; position, orientation and grid never change.
C8_EjecaoConforme ==
    [][comando' = "E" =>
        /\ UNCHANGED <<labirinto, posicao_agente, direcao_agente>>
        /\ IF ~objeto_coletado
           THEN erro' = "sem_carga" /\ objeto_coletado' = objeto_coletado
           ELSE IF ~NaBorda(labirinto, posicao_agente)
           THEN erro' = "fora_saida" /\ objeto_coletado' = objeto_coletado
           ELSE erro' = "nenhum" /\ objeto_coletado' = FALSE]_vars

\* C9: Rotate always succeeds, sets the orientation to (orientation + 1) mod 4
\* and changes nothing else; the orientation stays in 0..3 and four Rotate
\* commands in a row restore it.
C9_GiroConforme ==
    /\ [](direcao_agente \in 0..3)
    /\ [](DirAposGirar(DirAposGirar(DirAposGirar(DirAposGirar(direcao_agente))))
            = direcao_agente)
    /\ [][comando' = "G" =>
            /\ erro' = "nenhum"
            /\ direcao_agente' = (direcao_agente + 1) % 4
            /\ UNCHANGED <<labirinto, posicao_agente, objeto_coletado>>]_vars

\* a Rotate has wrapped the orientation from West (3) round to North (0)
C9_Witness ==
    /\ comando = "G"
    /\ direcao_agente = 0
    /\ objeto_coletado

\* the offsets of the three readings: those of North, turned clockwise once
\* per orientation index
Horario(v) == <<v[2], -v[1]>>

RECURSIVE HorarioN(_, _)
HorarioN(v, n) == IF n = 0 THEN v ELSE HorarioN(Horario(v), n - 1)

LeituraEsperada(lab, p) ==
    CASE Conteudo(lab, p) = "Wall" -> "PAREDE"
      [] Conteudo(lab, p) = "Object" -> "HUMANO"
      [] OTHER -> "VAZIO"

\* C10: sense() returns exactly three readings (left, front, right) taken at
\* the offsets of the orientation; off-grid and wall cells read Wall, the
\* object reads Object, anything else (the Entrance too) reads Open.
C10_LeiturasConforme ==
    LET l == obter_leituras_sensores_proximidade(labirinto, posicao_agente, direcao_agente)
        norte == << <<-1, -1>>, <<-1, 0>>, <<-1, 1>> >>
    IN  /\ DOMAIN l = 1..3
        /\ \A k \in 1..3 :
              LET o == HorarioN(norte[k], direcao_agente) IN
              l[k] = LeituraEsperada(labirinto,
                        <<posicao_agente[1] + o[1], posicao_agente[2] + o[2]>>)

\* ------------------------------------------------------------------------
\* Properties of the search
\* ------------------------------------------------------------------------
LivresDe(m) ==
    {p \in (0..(Len(m) - 1)) \X (0..(Len(m[1]) - 1)) : m[p[1] + 1][p[2] + 1] # "*"}

\* breadth-first distance from the cells of fronteira (at distance d) to
\* destino through the cells of livres; -1 when destino cannot be reached
RECURSIVE DistanciaBFS(_, _, _, _, _)
DistanciaBFS(livres, fronteira, vistos, destino, d) ==
    IF destino \in fronteira THEN d
    ELSE IF fronteira = {} THEN -1
    ELSE LET nova == {q \in livres \ vistos : \E p \in fronteira : Adjacentes(p, q)}
         IN  DistanciaBFS(livres, nova, vistos \cup nova, destino, d + 1)

Distancia(m, de, ate) == DistanciaBFS(LivresDe(m), {de}, {de}, ate, 0)

\* C2: a returned path begins with start, ends with goal, moves between
\* 4-adjacent in-bounds non-wall cells, and has as many steps as the
\* breadth-first shortest distance from start to goal.
C2_CaminhoOtimo ==
    astar = "encontrado" =>
        /\ Len(caminho) >= 1
        /\ caminho[1] = posicao_inicial
        /\ caminho[Len(caminho)] = posicao_objetivo
        /\ \A k \in 1..Len(caminho) : caminho[k] \in LivresDe(mapa)
        /\ \A k \in 1..(Len(caminho) - 1) : Adjacentes(caminho[k], caminho[k + 1])
        /\ Len(caminho) - 1 = Distancia(mapa, posicao_inicial, posicao_objetivo)

\* a path was returned that had to go round a wall
C2_Witness ==
    /\ astar = "encontrado"
    /\ Len(caminho) - 1 > calcular_distancia_manhattan(posicao_inicial, posicao_objetivo)

\* C3: with the preconditions met, the search returns None if and only if the
\* goal cannot be reached from start through 4-adjacent non-wall cells.
C3_NoneSseInalcancavel ==
    astar \in {"encontrado", "sem_caminho"} =>
        ((astar = "sem_caminho") <=>
            (Distancia(mapa, posicao_inicial, posicao_objetivo) = -1))

\* None was returned after the search had expanded several cells
C3_Witness ==
    /\ astar = "sem_caminho"
    /\ Cardinality(nos_visitados) >= 3


\* ------------------------------------------------------------------------
\* Properties of the exploration and of the mission
\* ------------------------------------------------------------------------
Retangular(lab) == \A r \in 1..Len(lab) : Len(lab[r]) = Len(lab[1])

NaoParedes(lab) == {p \in TodasPosicoes(lab) : Conteudo(lab, p) # "Wall"}

\* the object cell can be reached from the entrance through 4-adjacent
\* non-wall cells
ObjetoAlcancavel(lab) ==
    \E e \in NaoParedes(lab), h \in NaoParedes(lab) :
        /\ Conteudo(lab, e) = "Entrance"
        /\ Conteudo(lab, h) = "Object"
        /\ DistanciaBFS(NaoParedes(lab), {e}, {e}, h, 0) >= 0

\* C4: on an accepted rectangular map whose object cell is reachable from the
\* entrance, with a budget of at least twice the number of non-wall cells, the
\* exploration ends reporting the object found and never with an error; it
\* reports not-found through an emptied stack only when the object is
\* unreachable.
C4_ExploracaoEncontra ==
    /\ ( /\ TerminouExploracao
         /\ Retangular(labirinto)
         /\ ObjetoAlcancavel(labirinto)
         /\ max_iteracoes >= 2 * Cardinality(NaoParedes(labirinto)) )
       => explorador = "encontrado"
    /\ ( /\ explorador = "nao_encontrado"
         /\ pilha_navegacao = <<>>
         /\ Retangular(labirinto) )
       => ~ObjetoAlcancavel(labirinto)

\* C5: when the mission has returned normally, the carrying flag is false, the
\* agent stands on the entrance/exit cell and no cell of the grid holds the
\* object.
C5_MissaoDevolve ==
    missao = "concluida" =>
        /\ ~objeto_coletado
        /\ Conteudo(labirinto, posicao_agente) = "Entrance"
        /\ \A p \in TodasPosicoes(labirinto) : Conteudo(labirinto, p) # "Object"


\* ------------------------------------------------------------------------
\* Properties of the construction
\* ------------------------------------------------------------------------
CelulasCom(lab, conteudo) == {p \in TodasPosicoes(lab) : Conteudo(lab, p) = conteudo}

ErrosConstrucao == {"erro_sem_entrada", "erro_multiplas_entradas", "erro_objetos"}

\* C11: the construction fails with an error, and no command is ever executed,
\* when the number of E cells or the number of object cells (H and @ together)
\* is not exactly one; a map with exactly one of each is accepted with the
\* agent on the entrance and carrying false.
C11_ConstrucaoValida ==
    [][ /\ ambiente = "chamado" =>
            /\ UNCHANGED <<labirinto, comando, erro>>
            /\ IF /\ Cardinality(CelulasCom(labirinto, "Entrance")) = 1
                  /\ Cardinality(CelulasCom(labirinto, "Object")) = 1
               THEN /\ ambiente' = "construido"
                    /\ posicao_agente' \in CelulasCom(labirinto, "Entrance")
                    /\ objeto_coletado' = FALSE
               ELSE ambiente' \in ErrosConstrucao
        /\ ambiente \notin {"chamado", "construido"} => FALSE ]_vars

\* a map with one H and one @ has been refused
C11_Witness ==
    /\ ambiente = "erro_objetos"
    /\ \E p, q \in CelulasCom(labirinto, "Object") :
          Celula(labirinto, p[1], p[2]) = "H" /\ Celula(labirinto, q[1], q[2]) = "@"

\* C12: the initial orientation is South (2) if the entrance is in row 0, else
\* North (0) if it is in the last row, else East (1) if it is in column 0, else
\* West (3).
C12_OrientacaoInicial ==
    (ambiente = "construido" /\ comando = "-") =>
        \A e \in CelulasCom(labirinto, "Entrance") :
            direcao_agente = (IF e[1] = 0 THEN 2
                              ELSE IF e[1] = Len(labirinto) - 1 THEN 0
                              ELSE IF e[2] = 0 THEN 1
                              ELSE 3)

\* an entrance in the left corner of the top row, the agent facing South
C12_Witness ==
    /\ ambiente = "construido"
    /\ comando = "-"
    /\ Conteudo(labirinto, <<0, 0>>) = "Entrance"
    /\ direcao_agente = 2

\* ------------------------------------------------------------------------
\* Properties of the inputs of the search
\* ------------------------------------------------------------------------
GradeVazia(m) == m = <<>> \/ m[1] = <<>>

ForaDaGrade(m, p) == p \notin (0..(Len(m) - 1)) \X (0..(Len(m[1]) - 1))

EhParede(m, p) == m[p[1] + 1][p[2] + 1] = "*"

\* the first violated precondition of find_path, in the order of the claim
PrimeiraViolacao(m, ini, obj) ==
    CASE GradeVazia(m) -> "mapa_vazio"
      [] ~GradeVazia(m) /\ ForaDaGrade(m, ini) -> "inicial_invalida"
      [] ~GradeVazia(m) /\ ~ForaDaGrade(m, ini) /\ ForaDaGrade(m, obj) -> "objetivo_invalido"
      [] ~GradeVazia(m) /\ ~ForaDaGrade(m, ini) /\ ~ForaDaGrade(m, obj) /\ EhParede(m, ini)
            -> "inicial_obstaculo"
      [] ~GradeVazia(m) /\ ~ForaDaGrade(m, ini) /\ ~ForaDaGrade(m, obj) /\ ~EhParede(m, ini)
            /\ EhParede(m, obj) -> "objetivo_obstaculo"
      [] OTHER -> "nenhum"

\* C13: the search fails with the error of the first violated precondition,
\* in the order empty grid, start out of bounds, goal out of bounds, start a
\* wall, goal a wall, without searching, also when start equals goal.
C13_PrecondicoesEmOrdem ==
    [][ astar = "chamado" =>
          IF PrimeiraViolacao(mapa, posicao_inicial, posicao_objetivo) # "nenhum"
          THEN /\ astar' = PrimeiraViolacao(mapa, posicao_inicial, posicao_objetivo)
               /\ nos' = <<>> /\ nos_visitados' = {} /\ fila_prioridade' = {}
               /\ caminho' = <<>>
          ELSE astar' \in {"encontrado", "buscando"} ]_vars

\* start equals goal and is a wall: the error is the one of the start
C13_Witness ==
    /\ astar = "inicial_obstaculo"
    /\ posicao_inicial = posicao_objetivo

\* C14: for an in-bounds non-wall position p, the search from p to p returns
\* the one-element path [p].
C14_CaminhoUnitario ==
    ( /\ astar # "chamado"
      /\ ~GradeVazia(mapa)
      /\ posicao_inicial = posicao_objetivo
      /\ posicao_inicial \in LivresDe(mapa) )
    => (astar = "encontrado" /\ caminho = <<posicao_inicial>>)

\* the search from a cell of the last row to itself has returned
C14_Witness ==
    /\ astar = "encontrado"
    /\ posicao_inicial = posicao_objetivo
    /\ posicao_inicial[1] = Len(mapa) - 1
    /\ caminho = <<posicao_inicial>>

\* ------------------------------------------------------------------------
\* Properties of the exploration loop
\* ------------------------------------------------------------------------
\* C15: the loop runs at most max_iteracoes iterations, and once the budget
\* is used up the call returns not-found, with no error and nothing else
\* changed.
C15_OrcamentoRespeitado ==
    [][ /\ iteracao' <= max_iteracoes'
        /\ (explorador = "explorando" /\ iteracao >= max_iteracoes) =>
              /\ explorador' = "nao_encontrado"
              /\ UNCHANGED <<mundo, iteracao, pilha_navegacao>> ]_vars

\* the budget was used up with cells still on the stack
C15_Witness ==
    /\ explorador = "nao_encontrado"
    /\ iteracao = max_iteracoes
    /\ pilha_navegacao # <<>>

\* the 4-adjacent cells of p that are not walls and have not been visited
VizinhosPorVisitar(lab, visitadas, p) ==
    {q \in NaoParedes(lab) \ visitadas : Adjacentes(p, q)}

\* some cell of the stack still has an unvisited non-wall neighbour
PilhaComPendencia(lab, visitadas, pilha) ==
    \E k \in 1..Len(pilha) : VizinhosPorVisitar(lab, visitadas, pilha[k]) # {}

ErrosExploracao == {"erro_colisao", "erro_index"}

\* C16: within the budget, an iteration that starts in a dead end (the top of
\* the stack has no unvisited non-wall neighbour, other cells lie below it)
\* pops the stack, moves the agent back to the new top and goes on; and the
\* exploration neither reports not-found nor ends with an error while a cell of
\* the stack still has an unvisited non-wall neighbour.
C16_RetrocedeNoBecoSemSaida ==
    [][ (explorador = "explorando" /\ iteracao < max_iteracoes) =>
          /\ ( /\ VizinhosPorVisitar(labirinto, posicoes_visitadas,
                                     Topo(pilha_navegacao)) = {}
               /\ Len(pilha_navegacao) > 1 )
             => /\ explorador' = "explorando"
                /\ pilha_navegacao' = Desempilhar(pilha_navegacao)
                /\ posicao_agente' = Topo(pilha_navegacao')
          /\ PilhaComPendencia(labirinto, posicoes_visitadas, pilha_navegacao)
             => explorador' \notin ErrosExploracao \cup {"nao_encontrado"} ]_vars

\* the cell k steps ahead of p in the direction d
Passos(p, d, k) ==
    <<p[1] + k * (Adiante(<<0, 0>>, d)[1]), p[2] + k * (Adiante(<<0, 0>>, d)[2])>>

\* the direction the agent faces at the entrance e of lab
OrientacaoNaEntrada(lab, e) ==
    IF e[1] = 0 THEN 2
    ELSE IF e[1] = Len(lab) - 1 THEN 0
    ELSE IF e[2] = 0 THEN 1
    ELSE 3

\* the non-wall cells of lab are one straight corridor from the entrance e to
\* the object, d cells ahead of e in the initial facing direction
Corredor(lab, e, d) ==
    /\ Conteudo(lab, e) = "Entrance"
    /\ d >= 1
    /\ Conteudo(lab, Passos(e, OrientacaoNaEntrada(lab, e), d)) = "Object"
    /\ NaoParedes(lab) = {Passos(e, OrientacaoNaEntrada(lab, e), k) : k \in 0..d}

\* C17: on a straight corridor with the object d cells ahead of the entrance,
\* and a budget of at least d, the exploration does nothing but advance (no
\* Rotate, no pop of the stack, never more than d iterations) and ends only by
\* reporting success, after exactly d iterations and d - 1 Advance commands.
C17_CorredorReto ==
    \A e \in NaoParedes(labirinto), d \in 1..(NumRows + NumCols) :
        (Corredor(labirinto, e, d) /\ max_iteracoes >= d /\ explorador # "chamado") =>
            /\ iteracao <= d
            /\ \A k \in 1..Len(emitidos) : emitidos[k] = "A"
            /\ pilha_navegacao =
                  [k \in 1..Len(pilha_navegacao) |->
                      Passos(e, OrientacaoNaEntrada(labirinto, e), k - 1)]
            /\ Len(emitidos) = Len(pilha_navegacao) - 1
            /\ TerminouExploracao =>
                  /\ explorador = "encontrado"
                  /\ iteracao = d
                  /\ Len(emitidos) = d - 1

\* success at the end of a corridor of two steps
C17_Witness ==
    /\ explorador = "encontrado"
    /\ \E e \in NaoParedes(labirinto) : Corredor(labirinto, e, 2)
    /\ emitidos = <<"A">>

\* ------------------------------------------------------------------------
\* Properties of the mission
\* ------------------------------------------------------------------------
\* lab is the 5x5 scenario map, its cell (2,2) holding conteudo22
EhCenario(lab, conteudo22) ==
    /\ Len(lab) = 5
    /\ \A r \in 1..5 : Len(lab[r]) = 5
    /\ \A p \in (0..4) \X (0..4) :
          Conteudo(lab, p) = (IF p = <<0, 2>> THEN "Entrance"
                              ELSE IF p = <<1, 2>> THEN "Open"
                              ELSE IF p = <<2, 2>> THEN conteudo22
                              ELSE "Wall")

\* the phases of the mission, in order
FasesEmOrdem ==
    {<<"explorando", "coletando">>, <<"coletando", "validando">>,
     <<"validando", "retornando">>, <<"retornando", "planejando">>,
     <<"planejando", "concluida">>}

\* C18: on the 5x5 scenario map, with the default budget, the mission goes
\* through its phases in order and stops only in Done, with carrying false and
\* the agent back on (0,2); the exploration issues Advance commands only, and
\* the only Rotate commands of the run are the two that turn the agent round
\* for the return.
C18_CenarioCompleto ==
    /\ []( ( /\ max_iteracoes = MaxIteracoesPadrao
             /\ EhCenario(labirinto, "Object") \/ EhCenario(labirinto, "Open") )
           => /\ missao # "falhou"
              /\ missao = "concluida" \/ ENABLED NextMissao
              /\ missao = "explorando" => \A k \in 1..Len(emitidos) : emitidos[k] = "A"
              /\ missao = "concluida" =>
                    /\ ~objeto_coletado
                    /\ posicao_agente = <<0, 2>>
                    /\ EhCenario(labirinto, "Open")
                    /\ emitidos = <<"A", "P", "G", "G", "A", "E">> )
    /\ [][ (max_iteracoes = MaxIteracoesPadrao /\ missao' # missao)
           => <<missao, missao'>> \in FasesEmOrdem ]_vars

\* the scenario has run to its end
C18_Witness ==
    /\ max_iteracoes = MaxIteracoesPadrao
    /\ EhCenario(labirinto, "Open")
    /\ missao = "concluida"
    /\ emitidos = <<"A", "P", "G", "G", "A", "E">>

\* the commands added to the log by a step
NovosComandos == {emitidos'[k] : k \in (Len(emitidos) + 1)..Len(emitidos')}

\* C19: Pickup is issued only after the exploration has returned success, no
\* Pickup or Eject is issued while exploring, and when the exploration reports
\* not-found the mission ends in Failed, raising an error, with carrying false
\* and the grid as it was.
C19_ColetaSoAposSucesso ==
    /\ [][ /\ "P" \in NovosComandos => (explorador = "encontrado" /\ missao # "explorando")
           /\ missao = "explorando" =>
                 /\ NovosComandos \cap {"P", "E"} = {}
                 /\ labirinto' = labirinto
                 /\ objeto_coletado' = FALSE
           /\ (missao = "explorando" /\ explorador = "nao_encontrado" /\ missao' # missao)
                 => (missao' = "falhou" /\ erro_missao' # "nenhum") ]_vars
    /\ []( (missao = "explorando" /\ explorador = "nao_encontrado")
              => ENABLED MissaoAposExploracao )
    /\ []( missao = "explorando" => emitidos \in Seq({"A", "G"}) )

\* the mission has failed after the stack of the exploration emptied
C19_Witness ==
    /\ missao = "falhou"
    /\ erro_missao = "objeto_nao_encontrado"
    /\ pilha_navegacao = <<>>
    /\ ~objeto_coletado
    /\ CelulasCom(labirinto, "Object") # {}

\* ------------------------------------------------------------------------
\* The validation called on a state built with arbitrary commands
\* ------------------------------------------------------------------------
InitValidacao ==
    /\ InitMundo(LensIrregular, MaxOpenMundo)
    /\ AstarInativo
    /\ ExploradorNovo("inativo", {MaxIteracoesPadrao})
    /\ MissaoNova("validando")

NextValidacao ==
    \/ _avancar_agente
    \/ _girar_agente
    \/ _coletar_objeto
    \/ _ejetar_objeto
    \/ MissaoValidar

SpecValidacao == InitValidacao /\ [][NextValidacao]_vars

\* the three readings of the agent, by the contents of the grid
LeiturasEsperadas(lab, pos, d) ==
    LET norte == << <<-1, -1>>, <<-1, 0>>, <<-1, 1>> >> IN
    [k \in 1..3 |->
        LET o == HorarioN(norte[k], d) IN
        LeituraEsperada(lab, <<pos[1] + o[1], pos[2] + o[2]>>)]

TresParedes(lab, pos, d) ==
    \A k \in 1..3 : LeiturasEsperadas(lab, pos, d)[k] = "PAREDE"

\* C20: the validation run with carrying true and three Wall readings fails
\* with the trapped-agent error, not with the dead-end error; run with carrying
\* false it checks nothing and passes.
C20_PresoAntesDoBeco ==
    /\ [][ (missao = "validando" /\ missao' # missao) =>
              /\ (objeto_coletado /\ TresParedes(labirinto, posicao_agente, direcao_agente))
                    => (missao' = "falhou" /\ erro_missao' = "preso")
              /\ ~objeto_coletado => (missao' # "falhou" /\ erro_missao' = "nenhum")
              /\ UNCHANGED <<labirinto, posicao_agente, direcao_agente, objeto_coletado>> ]_vars
    /\ [](missao = "validando" => ENABLED MissaoValidar)

\* the replay of the planned route from the present state
Replay ==
    _executar_sequencia_navegacao(
        labirinto,
        [pos |-> posicao_agente, dir |-> direcao_agente, cmds |-> <<>>, erros |-> <<>>],
        caminho, 2)

\* a command of the return phase fails: an Advance of the replay, or the Eject
\* issued at the exit
FalhaNoRetorno ==
    \/ /\ missao = "retornando"
       /\ posicao_agente = _localizar_saida(labirinto)
       /\ ErroEjetar(labirinto, posicao_agente, objeto_coletado) # "nenhum"
    \/ /\ missao = "planejando"
       /\ astar = "encontrado"
       /\ \/ Replay.erros # <<>>
          \/ /\ Replay.pos = posicao_saida
             /\ ErroEjetar(labirinto, Replay.pos, objeto_coletado) # "nenhum"

\* C21: a Grid World command that fails in the return phase makes the mission
\* end in Failed with that error; the mission never returns normally after it.
C21_ErroDoRetornoPropagado ==
    [][ (FalhaNoRetorno /\ missao' # missao)
           => (missao' = "falhou" /\ erro_missao' # "nenhum") ]_vars

\* ------------------------------------------------------------------------
\* Properties of the steps of the exploration
\* ------------------------------------------------------------------------
\* an iteration of the exploration is about to start
InicioDeIteracao == explorador = "explorando" /\ iteracao < max_iteracoes

\* C22: every Advance issued by the exploration, to a new neighbour or back to
\* the cell below on the stack, targets an in-bounds non-wall cell, and the
\* exploration never ends with a collision error.
C22_AvancoSemColisao ==
    /\ [][ (explorador = "explorando" /\ "A" \in NovosComandos)
              => Conteudo(labirinto, Adiante(posicao_agente, direcao_agente')) # "Wall" ]_vars
    /\ [](explorador # "erro_colisao")

\* C23: at the start of every iteration the stack is not empty and its top is
\* the position of the agent in the grid world.
C23_TopoEhPosicao ==
    InicioDeIteracao =>
        /\ pilha_navegacao # <<>>
        /\ pilha_navegacao[Len(pilha_navegacao)] = posicao_agente

\* an iteration is about to start after both a push and a pop
C23_Witness ==
    /\ InicioDeIteracao
    /\ pilha_navegacao # <<>>
    /\ pilha_navegacao[Len(pilha_navegacao)] = posicao_agente
    /\ Len(pilha_navegacao) >= 2
    /\ Cardinality(posicoes_visitadas) > Len(pilha_navegacao)

\* the four cardinal neighbours of p
Vizinhos4(p) ==
    {<<p[1] - 1, p[2]>>, <<p[1] + 1, p[2]>>, <<p[1], p[2] - 1>>, <<p[1], p[2] + 1>>}

\* the Known-Map of an iteration once its mapping step has run
MapaAposMapeamento ==
    _atualizar_mapa_com_sensores(mapa_conhecido, posicao_objeto, Topo(pilha_navegacao),
                                 labirinto, posicao_agente, direcao_agente).mc

\* C24: in every iteration, after the mapping step and before a neighbour is
\* selected, the Known-Map has an entry for each of the four cardinal
\* neighbours of the current cell.
C24_QuatroVizinhosMapeados ==
    (InicioDeIteracao /\ ~LeiturasFalham(labirinto, posicao_agente, direcao_agente))
        => \A n \in Vizinhos4(Topo(pilha_navegacao)) : n \in DOMAIN MapaAposMapeamento

\* C25: when the exploration has reported success, the recorded object
\* position is the cell in front of the agent, that cell holds the Object in
\* the grid and is marked as the object in the Known-Map, and the Pickup the
\* mission issues next succeeds.
C25_ObjetoAFrente ==
    /\ []( (explorador = "encontrado" /\ missao \in {"explorando", "coletando"})
             => /\ posicao_objeto = Adiante(posicao_agente, direcao_agente)
                /\ Conteudo(labirinto, posicao_objeto) = "Object"
                /\ posicao_objeto \in DOMAIN mapa_conhecido
                /\ mapa_conhecido[posicao_objeto] = "@" )
    /\ [][ (missao = "coletando" /\ missao' # missao)
             => /\ NovosComandos = {"P"}
                /\ objeto_coletado'
                /\ Conteudo(labirinto', posicao_objeto) = "Open"
                /\ missao' = "validando" ]_vars

\* the object was found after at least one Advance and has been picked up
C25_Witness ==
    /\ explorador = "encontrado"
    /\ missao = "validando"
    /\ objeto_coletado
    /\ Len(pilha_navegacao) >= 2
    /\ posicao_objeto = Adiante(posicao_agente, direcao_agente)
    /\ emitidos[Len(emitidos)] = "P"

\* the cells in front, to the right and to the left of p for the orientation d
FrenteDireitaEsquerda(p, d) ==
    <<Adiante(p, d), Adiante(p, (d + 1) % 4), Adiante(p, (d + 3) % 4)>>

\* the places, among front, right and left, of the cells that are unvisited
\* and not recorded as a wall in the Known-Map mc
Qualificadas(mc, visitadas, p, d) ==
    {k \in 1..3 :
        LET c == FrenteDireitaEsquerda(p, d)[k] IN
        c \notin visitadas /\ ~(c \in DOMAIN mc /\ mc[c] = "X")}

\* the front sensor of the agent reports the object
FrenteVeObjeto ==
    obter_leituras_sensores_proximidade(labirinto, posicao_agente, direcao_agente)[2]
        = "HUMANO"

\* C26: an iteration whose front sensor does not report the object moves the
\* agent to the first of front, right, left that is unvisited and not recorded
\* as Wall, and pushes it; it pops the stack exactly when none of the three
\* qualifies; the cell behind is never moved to as a new cell.
C26_FrenteDireitaEsquerda ==
    [][ ( /\ InicioDeIteracao
          /\ ~LeiturasFalham(labirinto, posicao_agente, direcao_agente)
          /\ ~FrenteVeObjeto
          /\ iteracao' # iteracao )
        => LET p == Topo(pilha_navegacao)
               q == Qualificadas(MapaAposMapeamento, posicoes_visitadas, p, direcao_agente)
           IN  IF q # {}
               THEN LET alvo == FrenteDireitaEsquerda(p, direcao_agente)
                                    [CHOOSE k \in q : \A j \in q : k <= j]
                    IN  /\ posicao_agente' = alvo
                        /\ pilha_navegacao' = Append(pilha_navegacao, alvo)
               ELSE pilha_navegacao' = Desempilhar(pilha_navegacao) ]_vars

\* C27: during an exploration the Known-Map only grows: no key is removed and
\* no entry changes to a different content.
C27_MapaSoCresce ==
    [][ \A p \in DOMAIN mapa_conhecido :
            /\ p \in DOMAIN mapa_conhecido'
            /\ mapa_conhecido'[p] = mapa_conhecido[p] ]_vars

\* ------------------------------------------------------------------------
\* Ragged maps
\* ------------------------------------------------------------------------
\* p lies inside the grid, as wide as its widest row, and is missing from its
\* own, shorter row
CelulaFaltante(lab, p) ==
    /\ p[1] >= 0 /\ p[1] < Len(lab)
    /\ p[2] >= Len(lab[p[1] + 1]) /\ p[2] < LarguraMax(lab)

\* p is a cell of its row and lies beyond the end of the first row
AlemDaPrimeiraLinha(lab, p) ==
    /\ p[1] >= 0 /\ p[1] < Len(lab)
    /\ p[2] >= Len(lab[1]) /\ p[2] < Len(lab[p[1] + 1])

\* the three cells sense() reads
CelulasLidas(pos, d) ==
    LET norte == << <<-1, -1>>, <<-1, 0>>, <<-1, 1>> >> IN
    [k \in 1..3 |->
        LET o == HorarioN(norte[k], d) IN <<pos[1] + o[1], pos[2] + o[2]>>]

\* C28: on a ragged map a cell missing from a shorter row is a Wall: sense()
\* reads it as Wall and an Advance into it fails with the collision error and
\* no other; a cell of a row longer than the first row reads as its content
\* and can be advanced into when it is not a wall.
C28_LinhasCurtasSaoParede ==
    /\ []( \A k \in 1..3 :
             LET c == CelulasLidas(posicao_agente, direcao_agente)[k]
                 l == obter_leituras_sensores_proximidade(labirinto, posicao_agente,
                                                          direcao_agente)
             IN  (CelulaFaltante(labirinto, c) \/ AlemDaPrimeiraLinha(labirinto, c))
                    => /\ ~LeiturasFalham(labirinto, posicao_agente, direcao_agente)
                       /\ l[k] = LeituraEsperada(labirinto, c) )
    /\ [][ comando' = "A" =>
             LET alvo == Adiante(posicao_agente, direcao_agente) IN
             /\ CelulaFaltante(labirinto, alvo)
                   => (erro' = "colisao" /\ posicao_agente' = posicao_agente)
             /\ (AlemDaPrimeiraLinha(labirinto, alvo) /\ Conteudo(labirinto, alvo) # "Wall")
                   => (erro' = "nenhum" /\ posicao_agente' = alvo) ]_vars

\* ------------------------------------------------------------------------
\* Properties of the return phase
\* ------------------------------------------------------------------------
\* C29: each Eject of a mission, the second one of the error handler included,
\* is issued after a successful Pickup, with the object carried, and with the
\* agent on the exit position computed for the return.
C29_EjecaoNaSaida ==
    [][ "E" \in NovosComandos =>
          /\ \E k \in 1..Len(emitidos) : emitidos[k] = "P"
          /\ objeto_coletado
          /\ posicao_saida' # Nenhum
          /\ posicao_saida' = _localizar_saida(labirinto)
          /\ posicao_agente' = posicao_saida'
          /\ \A k \in (Len(emitidos) + 1)..Len(emitidos') :
                emitidos'[k] = "E" => \A j \in k..Len(emitidos') : emitidos'[j] = "E" ]_vars

\* the Eject at the exit has failed and the error handler has issued a second
\* one
C29_Witness ==
    /\ missao = "concluida"
    /\ Len(caminho) >= 2
    /\ posicao_agente = posicao_saida
    /\ objeto_coletado
    /\ Len(emitidos) >= 2
    /\ emitidos[Len(emitidos)] = "E"
    /\ emitidos[Len(emitidos) - 1] = "E"


\* C30: for every map accepted by the construction the exit position computed
\* for the return exists and is the one Entrance cell of the map, on which the
\* agent starts.
C30_SaidaEhEntrada ==
    ambiente = "construido" =>
        /\ _localizar_saida(labirinto) # Nenhum
        /\ CelulasCom(labirinto, "Entrance") = {_localizar_saida(labirinto)}
        /\ comando = "-" => posicao_agente = _localizar_saida(labirinto)


\* the return route is about to be computed
RotaPedida == missao = "planejando" /\ astar = "chamado"

\* C31: the map handed to the search for the return route has the rows of the
\* grid and the width of its widest row, marks as Wall exactly the walls of
\* the present grid and the cells missing from shorter rows, and does not mark
\* the cell that held the object.
C31_MapaNormalizado ==
    RotaPedida =>
        /\ Len(mapa) = Len(labirinto)
        /\ \A r \in 1..Len(mapa) : Len(mapa[r]) = LarguraMax(labirinto)
        /\ \A r \in 1..Len(labirinto), c \in 1..LarguraMax(labirinto) :
              (mapa[r][c] = "*") <=> (Conteudo(labirinto, <<r - 1, c - 1>>) = "Wall")
        /\ mapa[posicao_objeto[1] + 1][posicao_objeto[2] + 1] # "*"

\* the route is asked for on a ragged map, the object gone from the grid
C31_Witness ==
    /\ RotaPedida
    /\ ~Retangular(labirinto)
    /\ objeto_coletado
    /\ CelulasCom(labirinto, "Object") = {}
    /\ \E p \in TodasPosicoes(labirinto) :
          CelulaFaltante(labirinto, p) /\ mapa[p[1] + 1][p[2] + 1] = "*"


\* the cells of the search map that are not walls
LivresDoMapa ==
    {p \in (0..(Len(mapa) - 1)) \X (0..(LarguraMax(mapa) - 1)) :
        p[2] < Len(mapa[p[1] + 1]) /\ mapa[p[1] + 1][p[2] + 1] # "*"}

\* one pass of the main loop: the position it closes was open and not closed,
\* at most one position is closed, nothing closed is open afterwards
ExpansaoUnica ==
    astar = "buscando" =>
        /\ nos_visitados \subseteq nos_visitados'
        /\ (nos_visitados' \ nos_visitados) \subseteq (fila_prioridade \ nos_visitados)
        /\ Cardinality(nos_visitados' \ nos_visitados) <= 1
        /\ fila_prioridade' \cap nos_visitados' = {}
        /\ nos_abertos' \cap nos_visitados' = {}
        /\ Cardinality(nos_visitados') <= Cardinality(LivresDoMapa)

\* C32: in every search a position is taken from the open set and expanded at
\* most once, a closed position never comes back into the open set, the number
\* of expansions is at most the number of non-wall cells, and the search ends.
C32_ExpansaoUnicaETermino == [][ExpansaoUnica]_vars /\ <>TerminouAstar

\* a search that has closed a whole region of at least four cells, each once,
\* and ended without a route
C32_Witness ==
    /\ astar = "sem_caminho"
    /\ Cardinality(nos_visitados) >= 4
    /\ fila_prioridade = {}


\* C33: on a rectangular map, from any position commands can put the agent on
\* and for any goal that is not a wall, the replay of the route the search
\* returns issues one Advance per cell after the first, none of them fails,
\* and the agent ends on the goal.
C33_RotaPercorrida ==
    [][ (missao = "planejando" /\ missao' = "percorrida") =>
          /\ Retangular(labirinto)
          /\ Conteudo(labirinto, posicao_objetivo) # "Wall"
          /\ Replay.erros = <<>>
          /\ erro_missao' = "nenhum"
          /\ Cardinality({k \in (Len(emitidos) + 1)..Len(emitidos') : emitidos'[k] = "A"})
                = Len(caminho) - 1
          /\ posicao_agente' = posicao_objetivo ]_vars

\* a route with a turn in it has been replayed after a Pickup
C33_Witness ==
    /\ missao = "percorrida"
    /\ Len(caminho) >= 3
    /\ caminho[1][1] # caminho[3][1]
    /\ caminho[1][2] # caminho[3][2]
    /\ objeto_coletado
    /\ posicao_agente = posicao_objetivo


\* the entry v of the Known-Map for the position p says what the grid holds
EntradaFiel(lab, p, v) ==
    CASE v = "X" -> Conteudo(lab, p) = "Wall"
      [] v = "@" -> Conteudo(lab, p) = "Object"
      [] v \in {".", "E"} ->
            /\ p[1] >= 0 /\ p[1] < Len(lab) /\ p[2] >= 0 /\ p[2] < LarguraMax(lab)
            /\ Conteudo(lab, p) \notin {"Wall", "Object"}
      [] OTHER -> FALSE

\* C34: at every point of an exploration run on a rectangular map every entry
\* of the Known-Map agrees with the grid: Wall for a wall cell or a position
\* off the grid, Object for the object cell, Open or Entrance for an in-bounds
\* cell that is neither.
C34_MapaConhecidoFiel ==
    Retangular(labirinto) =>
        \A p \in DOMAIN mapa_conhecido : EntradaFiel(labirinto, p, mapa_conhecido[p])

\* a run that has recorded a wall, a position off the grid, an open cell, the
\* entrance and the object
C34_Witness ==
    /\ Retangular(labirinto)
    /\ explorador = "encontrado"
    /\ \E p \in DOMAIN mapa_conhecido :
          mapa_conhecido[p] = "X" /\ ForaDaGrade(labirinto, p)
    /\ \E p \in DOMAIN mapa_conhecido :
          mapa_conhecido[p] = "X" /\ ~ForaDaGrade(labirinto, p)
    /\ \E p \in DOMAIN mapa_conhecido : mapa_conhecido[p] = "."
    /\ \E p \in DOMAIN mapa_conhecido : mapa_conhecido[p] = "E"
    /\ \E p \in DOMAIN mapa_conhecido : mapa_conhecido[p] = "@"


\* the stack is a simple path of visited cells that starts at the entrance
PilhaEhCaminho ==
    /\ pilha_navegacao # <<>>
    /\ Conteudo(labirinto, pilha_navegacao[1]) = "Entrance"
    /\ \A k \in 1..(Len(pilha_navegacao) - 1) :
          Abs(pilha_navegacao[k][1] - pilha_navegacao[k + 1][1])
             + Abs(pilha_navegacao[k][2] - pilha_navegacao[k + 1][2]) = 1
    /\ \A k, l \in 1..Len(pilha_navegacao) :
          pilha_navegacao[k] = pilha_navegacao[l] => k = l
    /\ \A k \in 1..Len(pilha_navegacao) : pilha_navegacao[k] \in posicoes_visitadas

\* a step that pushes: the position pushed had not been visited, which every
\* position pushed before has been, and nothing leaves the visited set
EmpilhaUmaVez ==
    /\ posicoes_visitadas \subseteq posicoes_visitadas'
    /\ Len(pilha_navegacao') > Len(pilha_navegacao) =>
          /\ pilha_navegacao' = Append(pilha_navegacao, Topo(pilha_navegacao'))
          /\ Topo(pilha_navegacao') \notin posicoes_visitadas
          /\ Topo(pilha_navegacao') \in posicoes_visitadas'

\* C35: at the start of every iteration of a first exploration run the stack
\* has the entrance at its bottom, consecutive elements are 4-adjacent, no
\* position occurs twice and every element is visited; a position is pushed
\* at most once during the run.
C35_PilhaEhCaminhoSimples ==
    /\ [](InicioDeIteracao => PilhaEhCaminho)
    /\ [][EmpilhaUmaVez]_vars

\* an iteration starts after a backtrack with three positions on the stack
C35_Witness ==
    /\ InicioDeIteracao
    /\ Len(pilha_navegacao) >= 3
    /\ Cardinality(posicoes_visitadas) > Len(pilha_navegacao)


ContagemDeObjetos(lab, carregando) ==
    Cardinality(CelulasCom(lab, "Object")) + (IF carregando THEN 1 ELSE 0)

\* a step of the grid world keeps the count, or is the successful Eject that
\* takes it from 1 to 0; a successful Pickup starts with nothing carried
PassoConservaObjeto ==
    /\ \/ ContagemDeObjetos(labirinto', objeto_coletado')
             = ContagemDeObjetos(labirinto, objeto_coletado)
       \/ /\ comando' = "E" /\ erro' = "nenhum"
          /\ ContagemDeObjetos(labirinto, objeto_coletado) = 1
          /\ ContagemDeObjetos(labirinto', objeto_coletado') = 0
    /\ (objeto_coletado /\ ~objeto_coletado')
          => ContagemDeObjetos(labirinto', objeto_coletado') = 0
    /\ (comando' = "P" /\ labirinto' # labirinto)
          => (~objeto_coletado /\ CelulasCom(labirinto', "Object") = {})
    /\ (comando' = "P" /\ (objeto_coletado \/ CelulasCom(labirinto, "Object") = {}))
          => (erro' # "nenhum" /\ labirinto' = labirinto
              /\ objeto_coletado' = objeto_coletado)

\* C37: after any commands on an accepted map the Object cells plus one if
\* carrying number at most 1: exactly 1 until the first successful Eject and 0
\* afterwards; carrying implies that no cell reads as Object, and a second
\* Pickup never succeeds.
C37_UmObjetoNoMaximo ==
    /\ ContagemDeObjetos(labirinto, objeto_coletado) = 1
    /\ [](ContagemDeObjetos(labirinto, objeto_coletado) <= 1)
    /\ [](objeto_coletado => CelulasCom(labirinto, "Object") = {})
    /\ [][PassoConservaObjeto]_vars

\* a Pickup has been refused after the object was picked up and ejected
C37_Witness ==
    /\ comando = "P"
    /\ erro # "nenhum"
    /\ ~objeto_coletado
    /\ ContagemDeObjetos(labirinto, objeto_coletado) = 0


\* C38: in a mission the validation that follows a successful Pickup never
\* fails: the front reading is Open, the agent having neither moved nor turned
\* since the Pickup, and the mission never goes from Validating to Failed.
C38_ValidacaoNuncaFalha ==
    /\ []( (missao = "validando" /\ objeto_coletado) =>
              /\ emitidos # <<>> /\ emitidos[Len(emitidos)] = "P"
              /\ Conteudo(labirinto, Adiante(posicao_agente, direcao_agente)) = "Open"
              /\ ~LeiturasFalham(labirinto, posicao_agente, direcao_agente)
              /\ obter_leituras_sensores_proximidade(
                     labirinto, posicao_agente, direcao_agente)[2] = "VAZIO" )
    /\ [][ missao = "validando" => missao' # "falhou" ]_vars

\* the validation has passed with the object carried and a wall on either
\* side of the open cell in front
C38_Witness ==
    /\ missao = "retornando"
    /\ objeto_coletado
    /\ erro_missao = "nenhum"
    /\ LeiturasEsperadas(labirinto, posicao_agente, direcao_agente)
          = <<"PAREDE", "VAZIO", "PAREDE">>


\* C39: in every state commands can reach with the object carried, sense()
\* returns exactly three readings, each Wall or Open, so the validation after
\* the collection can fail only as trapped: its dead-end and sensor-fault
\* outcomes are never reached.
C39_SoPresoPodeFalhar ==
    objeto_coletado =>
        /\ ~LeiturasFalham(labirinto, posicao_agente, direcao_agente)
        /\ Len(obter_leituras_sensores_proximidade(
                   labirinto, posicao_agente, direcao_agente)) = 3
        /\ \A k \in 1..3 :
              obter_leituras_sensores_proximidade(
                  labirinto, posicao_agente, direcao_agente)[k] \in {"PAREDE", "VAZIO"}
        /\ ErroValidacao(labirinto, posicao_agente, direcao_agente, objeto_coletado)
              \in {"nenhum", "preso"}
        /\ erro_missao \in {"nenhum", "preso"}


\* C40: once an exploration run has ended, the recorded object position is
\* set, and the statistics report the object as found, exactly when the run
\* has returned success; a run that returns not-found leaves it unset.
C40_ObjetoSseSucesso ==
    TerminouExploracao =>
        /\ (posicao_objeto # Nenhum) <=> (explorador = "encontrado")
        /\ obter_estatisticas_exploracao.objeto_encontrado <=> (explorador = "encontrado")

====
